---- MODULE Spec2Model ----
(***************************************************************************)
(* Model of the reaper_py planning pipeline: the schema enforcer           *)
(* (gemini_agent._enforce_schema), the contextual validator                *)
(* (validate.validate_tool_plan), the clarification negotiation in         *)
(* bridge.process_payload and the control loop of main.main.               *)
(*                                                                         *)
(* JSON values are tagged records:                                         *)
(*   [t |-> "null"], [t |-> "bool", b |-> BOOLEAN],                        *)
(*   [t |-> "int", n |-> tenths], [t |-> "float", n |-> tenths],           *)
(*   [t |-> "str", s |-> sequence of tokens],                              *)
(*   [t |-> "list", l |-> sequence], [t |-> "dict", d |-> function].       *)
(* Numbers are kept in tenths (2.0 is 20, the integer 32 is 320).  A       *)
(* string is the sequence of its tokens; the token " " is whitespace.      *)
(***************************************************************************)
EXTENDS Integers, Sequences, FiniteSets, TLC

VARIABLES
    vplan,      \* validate_tool_plan: the plan argument
    vctx,       \* validate_tool_plan: the ctx argument
    vout,       \* validate_tool_plan: its result, with the index it stopped at
    payload,    \* process_payload: the request object
    outcome,    \* what plan_tool_calls met: a failure kind or the planner's raw plan
    response,   \* process_payload: the response object
    pstat,      \* process_payload: planner invocations, validation result, planning ctx
    lpc,        \* main.main: the input() the loop waits at
    lctx,       \* main.main: ctx
    lcmd,       \* main.main: command, while it is being handled
    lresp,      \* main.main: response, while the command is being handled
    lcalls,     \* planner invocations made for the command being handled
    history,    \* main.history: the CommandHistory
    lexec,      \* the arguments of the last execute_tool_calls call
    mrun,       \* bridge.main: argv, what the input holds, whether writing works
    mout,       \* bridge.main: response, what it wrote, and its return code
    hcalls      \* the arguments of the CommandHistory.add calls made so far

vvars == <<vplan, vctx, vout>>
bvars == <<payload, outcome, response, pstat>>
lvars == <<lpc, lctx, lcmd, lresp, lcalls, history, lexec>>
mvars == <<mrun, mout>>
hvars == <<hcalls>>
vars == <<vplan, vctx, vout, payload, outcome, response, pstat,
          lpc, lctx, lcmd, lresp, lcalls, history, lexec, mrun, mout, hcalls>>

---------------------------------------------------------------------------
(* Bounds of the model *)

MaxCalls == 2
MaxClips == 3
MaxTracks == 2
MaxCommands == 2
MaxLimit == 2
MaxAdds == 4

\* history.py: the default of CommandHistory's limit
HistoryLimit == 20

---------------------------------------------------------------------------
(* JSON values *)

Null == [t |-> "null"]
Bool(b) == [t |-> "bool", b |-> b]
IntV(k) == [t |-> "int", n |-> 10 * k]
FloatV(tenths) == [t |-> "float", n |-> tenths]
Str(tokens) == [t |-> "str", s |-> tokens]
List(q) == [t |-> "list", l |-> q]
Dict(f) == [t |-> "dict", d |-> f]
EmptyDict == Dict(<<>>)

\* a plan object with exactly the three keys of the planning contract
Plan(tool_calls, needs_clarification, clarification_question) ==
    Dict([tool_calls |-> tool_calls,
          needs_clarification |-> needs_clarification,
          clarification_question |-> clarification_question])

IsStr(v) == v.t = "str"
IsDict(v) == v.t = "dict"
IsList(v) == v.t = "list"
IsBool(v) == v.t = "bool"
IsNone(v) == v.t = "null"
\* isinstance(v, int): Python's bool is a subclass of int
IsInstanceInt(v) == v.t \in {"int", "bool"}

\* dict.get(key): the value, or None when the key is absent
Get(v, key) == IF key \in DOMAIN v.d THEN v.d[key] ELSE Null
Keys(v) == DOMAIN v.d

\* str.strip(): leading and trailing whitespace tokens removed
RECURSIVE LStrip(_)
LStrip(s) == IF s # <<>> /\ Head(s) = " " THEN LStrip(Tail(s)) ELSE s
RECURSIVE RStrip(_)
RStrip(s) ==
    IF s # <<>> /\ s[Len(s)] = " " THEN RStrip(SubSeq(s, 1, Len(s) - 1)) ELSE s
Strip(s) == RStrip(LStrip(s))

\* str.lower() on the tokens the model uses
LowerToken(tok) ==
    CASE tok = "Clip" -> "clip"
      [] tok = "YES" -> "yes"
      [] tok = "Select" -> "select"
      [] tok = "CLIP" -> "clip"
      [] tok = "Track" -> "track"
      [] tok = "TRACK" -> "track"
      [] tok = "S" -> "s"
      [] tok = "Selected" -> "selected"
      [] OTHER -> tok
Lower(s) == [i \in 1..Len(s) |-> LowerToken(s[i])]

\* `phrase in text`: the phrase occurs as a contiguous run of tokens
Contains(text, phrase) ==
    \E i \in 1..(Len(text) - Len(phrase) + 1) :
        SubSeq(text, i, i + Len(phrase) - 1) = phrase

---------------------------------------------------------------------------
(* validate.py *)

WHITELISTED_TOOLS ==
    {"fade_out", "fade_in", "set_volume_delta", "set_volume_set", "set_pan",
     "add_fx", "mute", "unmute", "solo", "unsolo", "crossfade", "cut_middle",
     "split_at_cursor", "duplicate", "trim_to_time_selection"}

FX_TYPES == {"compressor", "eq", "reverb"}

NO_ARG_TOOLS ==
    {"mute", "unmute", "solo", "unsolo", "split_at_cursor", "trim_to_time_selection"}

\* a one-token string's token ("" for anything else)
Word(v) == IF IsStr(v) /\ Len(v.s) = 1 THEN v.s[1] ELSE ""

_is_number(v) == v.t \in {"int", "float"}

_selected_items(ctx) ==
    IF IsList(Get(ctx, "selected_items")) THEN Get(ctx, "selected_items").l ELSE <<>>

_selected_tracks(ctx) ==
    IF IsList(Get(ctx, "selected_tracks")) THEN Get(ctx, "selected_tracks").l ELSE <<>>

_has_time_selection(ctx) ==
    LET ts == Get(ctx, "time_selection")
    IN  /\ IsDict(ts)
        /\ _is_number(Get(ts, "start"))
        /\ _is_number(Get(ts, "end"))
        /\ Get(ts, "end").n > Get(ts, "start").n

Ok == [ok |-> TRUE, error |-> Null]
Err(tokens) == [ok |-> FALSE, error |-> Str(tokens)]

PlanKeys == {"tool_calls", "needs_clarification", "clarification_question"}

_validate_plan_shape(plan) ==
    IF Keys(plan) # PlanKeys
    THEN Err(<<"Invalid plan:", "keys must be exactly",
               "tool_calls, needs_clarification, clarification_question", ".">>)
    ELSE IF ~IsList(plan.d.tool_calls)
    THEN Err(<<"Invalid plan:", "tool_calls", "must be a list", ".">>)
    ELSE IF ~IsBool(plan.d.needs_clarification)
    THEN Err(<<"Invalid plan:", "needs_clarification", "must be boolean", ".">>)
    ELSE IF plan.d.needs_clarification.b
    THEN IF plan.d.tool_calls.l # <<>>
         THEN Err(<<"Invalid plan:", "clarification response must not include tool calls",
                    ".">>)
         ELSE IF \/ ~IsStr(plan.d.clarification_question)
                 \/ Strip(plan.d.clarification_question.s) = <<>>
         THEN Err(<<"Invalid plan:", "clarification_question",
                    "must be a non-empty string", ".">>)
         ELSE Ok
    ELSE IF ~IsNone(plan.d.clarification_question)
    THEN Err(<<"Invalid plan:", "clarification_question",
               "must be null when needs_clarification=false", ".">>)
    ELSE IF plan.d.tool_calls.l = <<>>
    THEN Err(<<"Invalid plan:", "tool_calls", "cannot be empty", ".">>)
    ELSE Ok

\* _validate_set_volume_delta with the lower limit of percent at -91
_validate_set_volume_delta_From91(args) ==
    LET has_db == "db" \in Keys(args)
        has_percent == "percent" \in Keys(args)
    IN  IF has_db = has_percent
        THEN Err(<<"Invalid args for", "set_volume_delta", ":",
                   "provide exactly one of db or percent", ".">>)
        ELSE IF has_db
        THEN IF Keys(args) # {"db"}
             THEN Err(<<"Invalid args for", "set_volume_delta", ":",
                        "only db is allowed in dB mode", ".">>)
             ELSE IF ~_is_number(args.d.db)
             THEN Err(<<"Invalid args for", "set_volume_delta", ":",
                        "db must be numeric", ".">>)
             ELSE IF ~(-240 <= args.d.db.n /\ args.d.db.n <= 240)
             THEN Err(<<"Invalid args for", "set_volume_delta", ":",
                        "db must be between -24 and 24", ".">>)
             ELSE Ok
        ELSE IF Keys(args) # {"percent"}
        THEN Err(<<"Invalid args for", "set_volume_delta", ":",
                   "only percent is allowed in percent mode", ".">>)
        ELSE IF ~_is_number(args.d.percent)
        THEN Err(<<"Invalid args for", "set_volume_delta", ":",
                   "percent must be numeric", ".">>)
        ELSE IF ~(-910 <= args.d.percent.n /\ args.d.percent.n <= 2000)
        THEN Err(<<"Invalid args for", "set_volume_delta", ":",
                   "percent must be between -90 and 200", ".">>)
        ELSE Ok

_validate_set_volume_delta(args) ==
    LET has_db == "db" \in Keys(args)
        has_percent == "percent" \in Keys(args)
    IN  IF has_db = has_percent
        THEN Err(<<"Invalid args for", "set_volume_delta", ":",
                   "provide exactly one of db or percent", ".">>)
        ELSE IF has_db
        THEN IF Keys(args) # {"db"}
             THEN Err(<<"Invalid args for", "set_volume_delta", ":",
                        "only db is allowed in dB mode", ".">>)
             ELSE IF ~_is_number(args.d.db)
             THEN Err(<<"Invalid args for", "set_volume_delta", ":",
                        "db must be numeric", ".">>)
             ELSE IF ~(-240 <= args.d.db.n /\ args.d.db.n <= 240)
             THEN Err(<<"Invalid args for", "set_volume_delta", ":",
                        "db must be between -24 and 24", ".">>)
             ELSE Ok
        ELSE IF Keys(args) # {"percent"}
        THEN Err(<<"Invalid args for", "set_volume_delta", ":",
                   "only percent is allowed in percent mode", ".">>)
        ELSE IF ~_is_number(args.d.percent)
        THEN Err(<<"Invalid args for", "set_volume_delta", ":",
                   "percent must be numeric", ".">>)
        ELSE IF ~(-900 <= args.d.percent.n /\ args.d.percent.n <= 2000)
        THEN Err(<<"Invalid args for", "set_volume_delta", ":",
                   "percent must be between -90 and 200", ".">>)
        ELSE Ok

_validate_set_volume_set(args) ==
    IF Keys(args) # {"percent"}
    THEN Err(<<"Invalid args for", "set_volume_set", ":", "expected only percent", ".">>)
    ELSE IF ~_is_number(args.d.percent)
    THEN Err(<<"Invalid args for", "set_volume_set", ":", "percent must be numeric", ".">>)
    ELSE IF ~(0 <= args.d.percent.n /\ args.d.percent.n <= 2000)
    THEN Err(<<"Invalid args for", "set_volume_set", ":",
               "percent must be between 0 and 200", ".">>)
    ELSE Ok

\* lo <= v <= hi, the numbers in tenths
InRange(lo, v, hi) == lo <= v.n /\ v.n <= hi

TargetErr(name, amount, kind) == Err(<<name, "requires", amount, "selected", kind, ".">>)
ArgErr(name, what) == Err(<<"Invalid args for", name, ":", what, ".">>)

\* validate.py 151-153: the branch of the tools that take no arguments
CheckNoArgTool(name, args) ==
    IF Keys(args) # {} THEN ArgErr(name, "expected no args") ELSE Ok

\* validate.py 155-164
CheckFade(name, args, item_count) ==
    IF Keys(args) # {"seconds"}
    THEN ArgErr(name, "expected only seconds")
    ELSE IF ~_is_number(args.d.seconds)
    THEN ArgErr(name, "seconds must be numeric")
    ELSE IF ~(0 < args.d.seconds.n /\ args.d.seconds.n <= 300)
    THEN ArgErr(name, "seconds must be > 0 and <= 30")
    ELSE IF item_count < 1
    THEN TargetErr(name, "at least 1", "clip")
    ELSE Ok

\* validate.py 166-171
CheckVolumeDelta(name, args, track_count) ==
    IF ~_validate_set_volume_delta(args).ok
    THEN _validate_set_volume_delta(args)
    ELSE IF track_count < 1
    THEN TargetErr(name, "at least 1", "track")
    ELSE Ok

\* validate.py 173-178
CheckVolumeSet(name, args, track_count) ==
    IF ~_validate_set_volume_set(args).ok
    THEN _validate_set_volume_set(args)
    ELSE IF track_count < 1
    THEN TargetErr(name, "at least 1", "track")
    ELSE Ok

\* CheckSetPan with pan = 100 left out of the range
CheckSetPan_Below100(name, args, track_count) ==
    IF Keys(args) # {"pan"}
    THEN ArgErr(name, "expected only pan")
    ELSE IF ~IsInstanceInt(args.d.pan) \/ IsBool(args.d.pan)
    THEN ArgErr(name, "pan must be an integer")
    ELSE IF ~(-1000 <= args.d.pan.n /\ args.d.pan.n < 1000)
    THEN ArgErr(name, "pan must be between -100 and 100")
    ELSE IF track_count < 1
    THEN TargetErr(name, "at least 1", "track")
    ELSE Ok

\* validate.py 180-189
CheckSetPan(name, args, track_count) ==
    IF Keys(args) # {"pan"}
    THEN ArgErr(name, "expected only pan")
    ELSE IF ~IsInstanceInt(args.d.pan) \/ IsBool(args.d.pan)
    THEN ArgErr(name, "pan must be an integer")
    ELSE IF ~InRange(-1000, args.d.pan, 1000)
    THEN ArgErr(name, "pan must be between -100 and 100")
    ELSE IF track_count < 1
    THEN TargetErr(name, "at least 1", "track")
    ELSE Ok

\* validate.py 191-200
CheckAddFx(name, args, track_count) ==
    IF Keys(args) # {"type"}
    THEN ArgErr(name, "expected only type")
    ELSE IF ~IsStr(args.d.type)
    THEN ArgErr(name, "type must be a string")
    ELSE IF Word(args.d.type) \notin FX_TYPES
    THEN ArgErr(name, "type must be one of ['compressor', 'eq', 'reverb']")
    ELSE IF track_count < 1
    THEN TargetErr(name, "at least 1", "track")
    ELSE Ok

\* validate.py 202-204
CheckMuteSolo(name, track_count) ==
    IF track_count < 1 THEN TargetErr(name, "at least 1", "track") ELSE Ok

\* CheckCrossfade asking for two clips or more
CheckCrossfade_AtLeastTwo(name, args, item_count) ==
    IF Keys(args) # {"seconds"}
    THEN ArgErr(name, "expected only seconds")
    ELSE IF ~_is_number(args.d.seconds)
    THEN ArgErr(name, "seconds must be numeric")
    ELSE IF ~(0 < args.d.seconds.n /\ args.d.seconds.n <= 100)
    THEN ArgErr(name, "seconds must be > 0 and <= 10")
    ELSE IF item_count < 2
    THEN Err(<<name, "requires", "exactly 2", "selected", "clip", "s", ".">>)
    ELSE Ok

\* validate.py 206-215
CheckCrossfade(name, args, item_count) ==
    IF Keys(args) # {"seconds"}
    THEN ArgErr(name, "expected only seconds")
    ELSE IF ~_is_number(args.d.seconds)
    THEN ArgErr(name, "seconds must be numeric")
    ELSE IF ~(0 < args.d.seconds.n /\ args.d.seconds.n <= 100)
    THEN ArgErr(name, "seconds must be > 0 and <= 10")
    ELSE IF item_count # 2
    THEN Err(<<name, "requires", "exactly 2", "selected", "clip", "s", ".">>)
    ELSE Ok

\* validate.py 217-226
CheckCutMiddle(name, args, item_count) ==
    IF Keys(args) # {"seconds"}
    THEN ArgErr(name, "expected only seconds")
    ELSE IF ~_is_number(args.d.seconds)
    THEN ArgErr(name, "seconds must be numeric")
    ELSE IF ~(args.d.seconds.n > 0)
    THEN ArgErr(name, "seconds must be > 0")
    ELSE IF item_count < 1
    THEN TargetErr(name, "at least 1", "clip")
    ELSE Ok

\* validate.py 228-230
CheckSplitAtCursor(name, item_count, has_time_selection) ==
    IF item_count < 1 /\ ~has_time_selection
    THEN Err(<<name, "requires", "selected", "clip", "(s)", "or a time selection", ".">>)
    ELSE Ok

\* CheckDuplicate with the upper limit of count at 33
CheckDuplicate_UpTo33(name, args, item_count, track_count) ==
    IF Keys(args) # {"count"}
    THEN ArgErr(name, "expected only count")
    ELSE IF ~IsInstanceInt(args.d.count) \/ IsBool(args.d.count)
    THEN ArgErr(name, "count must be an integer")
    ELSE IF ~InRange(10, args.d.count, 330)
    THEN ArgErr(name, "count must be between 1 and 32")
    ELSE IF item_count < 1 /\ track_count < 1
    THEN Err(<<name, "requires", "selected", "clip", "(s)", "or",
               "selected", "track", "(s)", ".">>)
    ELSE Ok

\* validate.py 232-241
CheckDuplicate(name, args, item_count, track_count) ==
    IF Keys(args) # {"count"}
    THEN ArgErr(name, "expected only count")
    ELSE IF ~IsInstanceInt(args.d.count) \/ IsBool(args.d.count)
    THEN ArgErr(name, "count must be an integer")
    ELSE IF ~InRange(10, args.d.count, 320)
    THEN ArgErr(name, "count must be between 1 and 32")
    ELSE IF item_count < 1 /\ track_count < 1
    THEN Err(<<name, "requires", "selected", "clip", "(s)", "or",
               "selected", "track", "(s)", ".">>)
    ELSE Ok

\* validate.py 243-247
CheckTrim(name, item_count, has_time_selection) ==
    IF ~has_time_selection
    THEN Err(<<name, "requires", "an active time selection", ".">>)
    ELSE IF item_count < 1
    THEN TargetErr(name, "at least 1", "clip")
    ELSE Ok

\* the if/elif chain of validate.py 151-247: the first branch whose condition
\* holds is the only one taken
CheckByName(name, args, item_count, track_count, has_time_selection) ==
    IF name \in NO_ARG_TOOLS
    THEN CheckNoArgTool(name, args)
    ELSE IF name \in {"fade_in", "fade_out"}
    THEN CheckFade(name, args, item_count)
    ELSE IF name = "set_volume_delta"
    THEN CheckVolumeDelta(name, args, track_count)
    ELSE IF name = "set_volume_set"
    THEN CheckVolumeSet(name, args, track_count)
    ELSE IF name = "set_pan"
    THEN CheckSetPan(name, args, track_count)
    ELSE IF name = "add_fx"
    THEN CheckAddFx(name, args, track_count)
    ELSE IF name \in {"mute", "unmute", "solo", "unsolo"}
    THEN CheckMuteSolo(name, track_count)
    ELSE IF name = "crossfade"
    THEN CheckCrossfade(name, args, item_count)
    ELSE IF name = "cut_middle"
    THEN CheckCutMiddle(name, args, item_count)
    ELSE IF name = "split_at_cursor"
    THEN CheckSplitAtCursor(name, item_count, has_time_selection)
    ELSE IF name = "duplicate"
    THEN CheckDuplicate(name, args, item_count, track_count)
    ELSE IF name = "trim_to_time_selection"
    THEN CheckTrim(name, item_count, has_time_selection)
    ELSE Ok

\* the body of validate_tool_plan's loop for one tool call (validate.py
\* 139-247): Ok when the loop goes on to the next call, else the error returned
CheckToolCall(tool_call, index, item_count, track_count, has_time_selection) ==
    IF ~IsDict(tool_call)
    THEN Err(<<"Invalid tool call at index", ToString(index), ":", "expected object", ".">>)
    ELSE IF Keys(tool_call) # {"name", "args"}
    THEN Err(<<"Invalid tool call at index", ToString(index), ":",
               "keys must be exactly name and args", ".">>)
    ELSE IF ~IsStr(tool_call.d.name) \/ Word(tool_call.d.name) \notin WHITELISTED_TOOLS
    THEN Err(<<"Unsupported tool:", Word(tool_call.d.name), ".">>)
    ELSE IF ~IsDict(tool_call.d.args)
    THEN ArgErr(Word(tool_call.d.name), "expected object")
    ELSE CheckByName(Word(tool_call.d.name), tool_call.d.args, item_count, track_count,
                     has_time_selection)

\* validate_tool_plan's loop from the call at position i (1-based) on: the
\* first error met, with the position of the call that raised it (0: none)
RECURSIVE ValidateCalls(_, _, _, _, _)
ValidateCalls(calls, i, item_count, track_count, has_time_selection) ==
    IF i > Len(calls)
    THEN [ok |-> TRUE, error |-> Null, at |-> 0]
    ELSE LET r == CheckToolCall(calls[i], i - 1, item_count, track_count,
                                has_time_selection)
         IN  IF ~r.ok
             THEN [ok |-> FALSE, error |-> r.error, at |-> i]
             ELSE ValidateCalls(calls, i + 1, item_count, track_count,
                                has_time_selection)

\* validate_tool_plan(plan, ctx), with `at`: the position of the failing call
ValidateToolPlanAt(plan, ctx) ==
    IF ~IsDict(plan)
    THEN [ok |-> FALSE, error |-> Str(<<"Invalid plan:", "expected object", ".">>), at |-> 0]
    ELSE IF ~_validate_plan_shape(plan).ok
    THEN [ok |-> FALSE, error |-> _validate_plan_shape(plan).error, at |-> 0]
    ELSE IF plan.d.needs_clarification.b
    THEN [ok |-> TRUE, error |-> Null, at |-> 0]
    ELSE ValidateCalls(plan.d.tool_calls.l, 1, Len(_selected_items(ctx)),
                       Len(_selected_tracks(ctx)), _has_time_selection(ctx))

validate_tool_plan(plan, ctx) ==
    [ok |-> ValidateToolPlanAt(plan, ctx).ok, error |-> ValidateToolPlanAt(plan, ctx).error]

\* an int beyond the range of float, such as 10 ** 400
HugeInt == [t |-> "int", n |-> 0, huge |-> TRUE]
IsHuge(v) == v.t = "int" /\ "huge" \in DOMAIN v

\* the tool call reaches a float(value) in validate_tool_plan (validate.py 97,
\* 105, 116, 161, 212, 222) with a huge int: OverflowError
FloatOverflows(tool_call) ==
    LET name == Word(Get(tool_call, "name"))
        args == Get(tool_call, "args")
    IN  /\ IsDict(tool_call) /\ Keys(tool_call) = {"name", "args"}
        /\ IsStr(tool_call.d.name) /\ IsDict(args)
        /\ \/ /\ name \in {"fade_in", "fade_out", "crossfade", "cut_middle"}
              /\ Keys(args) = {"seconds"} /\ IsHuge(args.d.seconds)
           \/ /\ name = "set_volume_delta"
              /\ Keys(args) = {"db"} /\ IsHuge(args.d.db)
           \/ /\ name \in {"set_volume_delta", "set_volume_set"}
              /\ Keys(args) = {"percent"} /\ IsHuge(args.d.percent)

\* the positions of the calls at which validate_tool_plan raises: its loop gets
\* to the call, and the call's float() overflows
RaisesAt(plan, ctx) ==
    IF IsDict(plan) /\ _validate_plan_shape(plan).ok /\ ~plan.d.needs_clarification.b
    THEN {i \in 1..Len(plan.d.tool_calls.l) :
            /\ ValidateToolPlanAt(plan, ctx).ok \/ ValidateToolPlanAt(plan, ctx).at >= i
            /\ FloatOverflows(plan.d.tool_calls.l[i])}
    ELSE {}

\* validate_tool_plan raises instead of returning
validate_tool_plan_raises(plan, ctx) == RaisesAt(plan, ctx) # {}

\* what a call validate_tool_plan(plan, ctx) comes to: the pair returned and
\* the position of the failing call, or an exception raised at a call
ValidateOutcome(plan, ctx) ==
    IF validate_tool_plan_raises(plan, ctx)
    THEN [done |-> TRUE, ok |-> FALSE, error |-> Null,
          at |-> CHOOSE i \in RaisesAt(plan, ctx) : \A k \in RaisesAt(plan, ctx) : i <= k,
          raised |-> TRUE]
    ELSE [done |-> TRUE,
          ok |-> ValidateToolPlanAt(plan, ctx).ok,
          error |-> ValidateToolPlanAt(plan, ctx).error,
          at |-> ValidateToolPlanAt(plan, ctx).at,
          raised |-> FALSE]

\* suggestion_for_error without its "selected track" branch
suggestion_for_error_ClipsOnly(error, ctx) ==
    IF Contains(error, <<"selected", "clip">>) /\ Len(_selected_tracks(ctx)) > 0
    THEN Str(<<"Do you mean the", "selected", "clip", "(s)", "or the",
               "selected", "track", "(s)", "?">>)
    ELSE Null

\* validate.py 252-262
suggestion_for_error(error, ctx) ==
    LET item_count == Len(_selected_items(ctx))
        track_count == Len(_selected_tracks(ctx))
    IN  IF Contains(error, <<"selected", "clip">>) /\ track_count > 0
        THEN Str(<<"Do you mean the", "selected", "clip", "(s)", "or the",
                   "selected", "track", "(s)", "?">>)
        ELSE IF Contains(error, <<"selected", "track">>) /\ item_count > 0
        THEN Str(<<"Do you mean the", "selected", "track", "(s)", "or the",
                   "selected", "clip", "(s)", "?">>)
        ELSE IF Contains(error, <<"crossfade", "requires", "exactly 2",
                                  "selected", "clip", "s">>)
        THEN Str(<<"Please select exactly two", "clip", "s", "to crossfade", ".">>)
        ELSE Null

---------------------------------------------------------------------------
(* gemini_agent.py *)

\* each tool's declared argument key-sets (a tuple in the source lists
\* alternatives, a set is the only key-set)
TOOL_ARG_KEYS ==
    ("fade_out" :> {{"seconds"}})
    @@ ("fade_in" :> {{"seconds"}})
    @@ ("set_volume_delta" :> {{"db"}, {"percent"}})
    @@ ("set_volume_set" :> {{"percent"}})
    @@ ("set_pan" :> {{"pan"}})
    @@ ("add_fx" :> {{"type"}})
    @@ ("mute" :> {{}})
    @@ ("unmute" :> {{}})
    @@ ("solo" :> {{}})
    @@ ("unsolo" :> {{}})
    @@ ("crossfade" :> {{"seconds"}})
    @@ ("cut_middle" :> {{"seconds"}})
    @@ ("split_at_cursor" :> {{}})
    @@ ("duplicate" :> {{"count"}})
    @@ ("trim_to_time_selection" :> {{}})

\* _allowed_arg_keys taking any set of argument keys for every tool
_allowed_arg_keys_AnyKeys(name) ==
    SUBSET {"seconds", "db", "percent", "pan", "type", "count"}

_allowed_arg_keys(name) == TOOL_ARG_KEYS[name]

Raise(kind, tokens) == [kind |-> kind, error |-> Str(tokens), plan |-> Null]
Return(plan) == [kind |-> "return", error |-> Null, plan |-> plan]

\* gemini_agent.py 286-303: one tool call of the enforcer's loop
EnforceToolCall(tool_call, index) ==
    IF ~IsDict(tool_call)
    THEN Raise("GeminiAgentError",
               <<"Gemini output:", "tool_call at index", ToString(index),
                 "is not an object", ".">>)
    ELSE IF Keys(tool_call) # {"name", "args"}
    THEN Raise("GeminiAgentError",
               <<"Gemini output:", "tool_call at index", ToString(index),
                 "must contain only name and args", ".">>)
    ELSE IF ~IsStr(tool_call.d.name) \/ Word(tool_call.d.name) \notin WHITELISTED_TOOLS
    THEN Raise("GeminiAgentError",
               <<"Gemini output:", "unsupported tool", Word(tool_call.d.name), ".">>)
    ELSE IF ~IsDict(tool_call.d.args)
    THEN Raise("GeminiAgentError",
               <<"Gemini output:", "args for", Word(tool_call.d.name),
                 "must be an object", ".">>)
    ELSE IF Word(tool_call.d.name) \notin DOMAIN TOOL_ARG_KEYS
    THEN Raise("KeyError", <<Word(tool_call.d.name)>>)
    ELSE IF Keys(tool_call.d.args) \notin _allowed_arg_keys(Word(tool_call.d.name))
    THEN Raise("GeminiAgentError",
               <<"Gemini output:", "args for", Word(tool_call.d.name),
                 "must be", "its declared keys", ".">>)
    ELSE Return(Dict([name |-> tool_call.d.name, args |-> tool_call.d.args]))

\* EnforceCalls dropping a call that breaks the schema instead of raising
RECURSIVE EnforceCalls_SkipsInvalid(_, _, _)
EnforceCalls_SkipsInvalid(tool_calls, i, done) ==
    IF i > Len(tool_calls)
    THEN Return(Plan(List(done), Bool(FALSE), Null))
    ELSE LET r == EnforceToolCall(tool_calls[i], i - 1)
         IN  IF r.kind # "return"
             THEN EnforceCalls_SkipsInvalid(tool_calls, i + 1, done)
             ELSE EnforceCalls_SkipsInvalid(tool_calls, i + 1, Append(done, r.plan))

\* the enforcer's loop from position i on, `done` the normalized calls so far
RECURSIVE EnforceCalls(_, _, _)
EnforceCalls(tool_calls, i, done) ==
    IF i > Len(tool_calls)
    THEN Return(Plan(List(done), Bool(FALSE), Null))
    ELSE LET r == EnforceToolCall(tool_calls[i], i - 1)
         IN  IF r.kind # "return" THEN r
             ELSE EnforceCalls(tool_calls, i + 1, Append(done, r.plan))

\* EnforceClarification without the check that a clarification carries no calls
EnforceClarification_KeepsCalls(plan) ==
    IF \/ ~IsStr(plan.d.clarification_question)
       \/ Strip(plan.d.clarification_question.s) = <<>>
    THEN Raise("GeminiAgentError",
               <<"Gemini output:", "clarification_question", "must be non-empty", ".">>)
    ELSE Return(Plan(List(<<>>), Bool(TRUE), Str(Strip(plan.d.clarification_question.s))))

\* EnforceClarification testing the question before it is stripped
EnforceClarification_AllowsBlank(plan) ==
    IF plan.d.tool_calls.l # <<>>
    THEN Raise("GeminiAgentError",
               <<"Gemini output:", "clarification cannot include tool_calls", ".">>)
    ELSE IF ~IsStr(plan.d.clarification_question) \/ plan.d.clarification_question.s = <<>>
    THEN Raise("GeminiAgentError",
               <<"Gemini output:", "clarification_question", "must be non-empty", ".">>)
    ELSE Return(Plan(List(<<>>), Bool(TRUE), Str(Strip(plan.d.clarification_question.s))))

\* gemini_agent.py 268-277: a plan that asks for clarification
EnforceClarification(plan) ==
    IF plan.d.tool_calls.l # <<>>
    THEN Raise("GeminiAgentError",
               <<"Gemini output:", "clarification cannot include tool_calls", ".">>)
    ELSE IF \/ ~IsStr(plan.d.clarification_question)
            \/ Strip(plan.d.clarification_question.s) = <<>>
    THEN Raise("GeminiAgentError",
               <<"Gemini output:", "clarification_question", "must be non-empty", ".">>)
    ELSE Return(Plan(List(<<>>), Bool(TRUE), Str(Strip(plan.d.clarification_question.s))))

_enforce_schema(plan) ==
    IF Keys(plan) # PlanKeys
    THEN Raise("GeminiAgentError", <<"Gemini output", "keys are invalid", ".">>)
    ELSE IF ~IsList(plan.d.tool_calls)
    THEN Raise("GeminiAgentError",
               <<"Gemini output:", "tool_calls", "must be a list", ".">>)
    ELSE IF ~IsBool(plan.d.needs_clarification)
    THEN Raise("GeminiAgentError",
               <<"Gemini output:", "needs_clarification", "must be a boolean", ".">>)
    ELSE IF plan.d.needs_clarification.b
    THEN EnforceClarification(plan)
    ELSE IF ~IsNone(plan.d.clarification_question)
    THEN Raise("GeminiAgentError",
               <<"Gemini output:", "clarification_question",
                 "must be null when needs_clarification=false", ".">>)
    ELSE IF plan.d.tool_calls.l = <<>>
    THEN Raise("GeminiAgentError", <<"Gemini output:", "tool_calls", "cannot be empty", ".">>)
    ELSE EnforceCalls(plan.d.tool_calls.l, 1, <<>>)

\* float(value) of a number
ToFloat(v) == [t |-> "float", n |-> v.n]

\* gemini_agent.py 163-204: the summary of ctx that goes into the prompt
build_ctx_summary(ctx) ==
    LET selected_items == IF IsList(Get(ctx, "selected_items"))
                          THEN Get(ctx, "selected_items").l ELSE <<>>
        selected_tracks == IF IsList(Get(ctx, "selected_tracks"))
                           THEN Get(ctx, "selected_tracks").l ELSE <<>>
        cursor_raw == Get(ctx, "cursor")
        cursor_value == IF _is_number(cursor_raw) THEN ToFloat(cursor_raw) ELSE FloatV(0)
        items == {i \in 1..Len(selected_items) : IsDict(selected_items[i])}
        starts == {Get(selected_items[i], "start").n :
                     i \in {j \in items : _is_number(Get(selected_items[j], "start"))}}
        ends == {Get(selected_items[i], "end").n :
                     i \in {j \in items : _is_number(Get(selected_items[j], "end"))}}
        time_selection == Get(ctx, "time_selection")
        bounds == IF /\ IsDict(time_selection)
                     /\ _is_number(Get(time_selection, "start"))
                     /\ _is_number(Get(time_selection, "end"))
                  THEN Dict([start |-> ToFloat(Get(time_selection, "start")),
                             end |-> ToFloat(Get(time_selection, "end"))])
                  ELSE Null
        forced_target == Get(ctx, "forced_target")
        summary == [selected_clips_count |-> IntV(Len(selected_items)),
                    selected_tracks_count |-> IntV(Len(selected_tracks)),
                    cursor |-> cursor_value,
                    time_selection |-> bounds,
                    selected_clips_range |->
                        IF starts # {} /\ ends # {}
                        THEN Dict([start |-> FloatV(CHOOSE x \in starts :
                                                        \A y \in starts : x <= y),
                                   end |-> FloatV(CHOOSE x \in ends :
                                                      \A y \in ends : x >= y)])
                        ELSE Null,
                    forced_target |-> forced_target]
        present == {"selected_clips_count", "selected_tracks_count", "cursor",
                    "time_selection"}
                   \cup (IF starts # {} /\ ends # {} THEN {"selected_clips_range"} ELSE {})
                   \cup (IF forced_target \in {Str(<<"clip", "s">>), Str(<<"track", "s">>)}
                         THEN {"forced_target"} ELSE {})
    IN  Dict([key \in present |-> summary[key]])

\* plan_tool_calls(user_text, ctx) when the environment and the planner behave
\* as `oc` says: no credential, a transport or format failure, another
\* exception, or a parsed JSON object that goes through the enforcer
plan_tool_calls(user_text, ctx, oc) ==
    IF Strip(user_text) = <<>>
    THEN Raise("GeminiAgentError", <<"Command is empty", ".">>)
    ELSE IF oc.kind = "not_configured"
    THEN Raise("GeminiNotConfiguredError",
               <<"Gemini is not configured", ".",
                 "Set GEMINI_API_KEY in environment or .env", ".">>)
    ELSE IF oc.kind = "agent_error"
    THEN Raise("GeminiAgentError", <<"Gemini API network error">>)
    ELSE IF oc.kind = "exception"
    THEN Raise("Exception", <<"unexpected">>)
    ELSE _enforce_schema(oc.plan)

---------------------------------------------------------------------------
(* preview.py *)

Abs(n) == IF n < 0 THEN -n ELSE n

\* f"{x:.1f}" of a number kept in tenths
Fmt1(n) ==
    (IF n < 0 THEN "-" ELSE "") \o ToString(Abs(n) \div 10) \o "." \o ToString(Abs(n) % 10)

\* f"{x:.2f}" of a number kept in thousandths (exact for whole hundredths)
Fmt2(n) ==
    (IF n < 0 THEN "-" ELSE "") \o ToString(Abs(n) \div 1000) \o "."
    \o ToString((Abs(n) \div 100) % 10) \o ToString((Abs(n) \div 10) % 10)

_as_float(v) == IF _is_number(v) THEN v.n ELSE 0

\* _as_int: int(value) truncates toward zero; the result in units
_as_int(v) ==
    IF v.t = "int" THEN v.n \div 10
    ELSE IF v.t = "float" THEN (IF v.n < 0 THEN -(Abs(v.n) \div 10) ELSE v.n \div 10)
    ELSE 0

_volume_delta_line(args) ==
    IF "db" \in Keys(args)
    THEN <<IF _as_float(Get(args, "db")) > 0 THEN "Raise" ELSE "Lower",
           "track volume by", Fmt1(Abs(_as_float(Get(args, "db")))), "dB">>
    ELSE <<IF _as_float(Get(args, "percent")) > 0 THEN "Raise" ELSE "Lower",
           "track volume by", Fmt1(Abs(_as_float(Get(args, "percent")))), "%",
           "(gain x", Fmt2(1000 + _as_float(Get(args, "percent"))), ")">>

_render_tool_line(tool_call, clip_count, track_count) ==
    LET name == Word(Get(tool_call, "name"))
        args == IF IsDict(Get(tool_call, "args")) THEN Get(tool_call, "args") ELSE EmptyDict
    IN  CASE name = "fade_out" ->
               <<"Fade out by", Fmt1(_as_float(Get(args, "seconds"))), "s">>
          [] name = "fade_in" ->
               <<"Fade in by", Fmt1(_as_float(Get(args, "seconds"))), "s">>
          [] name = "set_volume_delta" -> _volume_delta_line(args)
          [] name = "set_volume_set" ->
               <<"Set track volume to", Fmt1(_as_float(Get(args, "percent"))), "%",
                 "(gain =", Fmt2(_as_float(Get(args, "percent"))), ")">>
          [] name = "set_pan" ->
               IF _as_int(Get(args, "pan")) = 0
               THEN <<"Set pan to center">>
               ELSE <<"Set pan to", ToString(Abs(_as_int(Get(args, "pan")))),
                      IF _as_int(Get(args, "pan")) < 0 THEN "left" ELSE "right">>
          [] name = "add_fx" -> <<"Add", Word(Get(args, "type")), "FX">>
          [] name = "mute" -> <<"Mute", "selected", "track", "(s)">>
          [] name = "unmute" -> <<"Unmute", "selected", "track", "(s)">>
          [] name = "solo" -> <<"Solo", "selected", "track", "(s)">>
          [] name = "unsolo" -> <<"Unsolo", "selected", "track", "(s)">>
          [] name = "crossfade" ->
               <<"Crossfade", ToString(clip_count), "selected", "clip", "s", "over",
                 Fmt1(_as_float(Get(args, "seconds"))), "s">>
          [] name = "cut_middle" ->
               <<"Remove", Fmt1(_as_float(Get(args, "seconds"))), "s",
                 "from middle of", "selected", "clip", "(s)">>
          [] name = "split_at_cursor" -> <<"Split", "selected", "clip", "(s)", "at cursor">>
          [] name = "duplicate" ->
               IF clip_count > 0
               THEN <<"Duplicate", "selected", "clip", "(s)",
                      ToString(_as_int(Get(args, "count"))), "times">>
               ELSE IF track_count > 0
               THEN <<"Duplicate", "selected", "track", "(s)",
                      ToString(_as_int(Get(args, "count"))), "times">>
               ELSE <<"Duplicate selection", ToString(_as_int(Get(args, "count"))),
                      "times">>
          [] name = "trim_to_time_selection" ->
               <<"Trim", "selected", "clip", "(s)", "to time selection">>
          [] OTHER -> <<name, "args">>

ClipTools ==
    {"fade_in", "fade_out", "crossfade", "cut_middle", "split_at_cursor",
     "trim_to_time_selection"}
TrackTools ==
    {"set_volume_delta", "set_volume_set", "set_pan", "add_fx", "mute", "unmute", "solo",
     "unsolo"}

Names(tool_calls) == {Word(Get(tool_calls[i], "name")) : i \in 1..Len(tool_calls)}

\* build_preview's bullets: one line per call, then the summary lines
PreviewBullets(tool_calls, ctx) ==
    LET clip_count == Len(_selected_items(ctx))
        track_count == Len(_selected_tracks(ctx))
        names == Names(tool_calls)
        uses_clips == \/ names \cap ClipTools # {}
                      \/ "duplicate" \in names /\ clip_count > 0
        uses_tracks == \/ names \cap TrackTools # {}
                       \/ "duplicate" \in names /\ clip_count = 0 /\ track_count > 0
        uses_time_selection ==
            names \cap {"split_at_cursor", "trim_to_time_selection"} # {}
        lines == [i \in 1..Len(tool_calls) |->
                    _render_tool_line(tool_calls[i], clip_count, track_count)]
        clips == IF ~uses_clips THEN <<>>
                 ELSE (IF clip_count = 1 THEN <<(<<"Applied to 1", "selected", "clip">>)>>
                       ELSE IF clip_count > 1
                       THEN <<(<<"Applied to", ToString(clip_count), "selected", "clip",
                                 "s">>)>>
                       ELSE <<>>)
                      \o (IF clip_count > 0 THEN <<(<<"Range:", "clip span">>)>> ELSE <<>>)
        tracks == IF ~uses_tracks THEN <<>>
                  ELSE IF track_count = 1
                  THEN <<(<<"Applied to 1", "selected", "track">>)>>
                  ELSE IF track_count > 1
                  THEN <<(<<"Applied to", ToString(track_count), "selected", "track",
                            "s">>)>>
                  ELSE <<>>
        time == IF uses_time_selection /\ _has_time_selection(ctx)
                THEN <<(<<"Time selection:", "span">>)>>
                ELSE <<>>
    IN  lines \o clips \o tracks \o time

\* render_preview_text: the title, then "- bullet" per line
render_preview_text(tool_calls, ctx) ==
    <<(<<"Preview:">>)>>
    \o [i \in 1..Len(PreviewBullets(tool_calls, ctx)) |->
            <<"-">> \o PreviewBullets(tool_calls, ctx)[i]]

---------------------------------------------------------------------------
(* bridge.py *)

CLIPS == Str(<<"clip", "s">>)
TRACKS == Str(<<"track", "s">>)

_response(ok, needs_clarification, clarification_question, error, preview, tool_calls) ==
    [ok |-> ok,
     needs_clarification |-> needs_clarification,
     clarification_question |-> clarification_question,
     error |-> error,
     preview |-> preview,
     tool_calls |-> tool_calls]

\* _response with the error message left out
Failure_NoMessage(tokens) == _response(FALSE, FALSE, Null, Str(<<>>), <<>>, <<>>)

\* _response(ok=False, error=...) with the other arguments at their defaults
Failure(tokens) == _response(FALSE, FALSE, Null, Str(tokens), <<>>, <<>>)

\* _normalize_target comparing without lower()
_normalize_target_CaseSensitive(value) ==
    IF ~IsStr(value) THEN Null
    ELSE IF Strip(value.s) \in {<<"clip">>, <<"clip", "s">>} THEN CLIPS
    ELSE IF Strip(value.s) \in {<<"track">>, <<"track", "s">>} THEN TRACKS
    ELSE Null

\* bridge.py 45-53
_normalize_target(value) ==
    IF ~IsStr(value) THEN Null
    ELSE IF Lower(Strip(value.s)) \in {<<"clip">>, <<"clip", "s">>} THEN CLIPS
    ELSE IF Lower(Strip(value.s)) \in {<<"track">>, <<"track", "s">>} THEN TRACKS
    ELSE Null

\* the keys of a hint whose value is a string that is not blank, stripped
_normalize_conversation_hint(value) ==
    IF ~IsDict(value) THEN Null
    ELSE LET kept == {k \in {"last_intent", "pending_intent"} :
                        IsStr(Get(value, k)) /\ Strip(Get(value, k).s) # <<>>}
         IN  IF kept = {} THEN Null
             ELSE Dict([k \in kept |-> Str(Strip(value.d[k].s))])

_target_error(target) ==
    IF target = TRACKS
    THEN <<"No", "selected", "track", "s", ".", "Select a track in REAPER", ".">>
    ELSE <<"No", "selected", "clip", "s", ".", "Select a clip in REAPER", ".">>

\* _is_target_selection_error taking any selection message for the target's
_is_target_selection_error_AnyKind(error, target) ==
    Contains(Lower(error), <<"selected">>)

\* bridge.py 76-80
_is_target_selection_error(error, target) ==
    IF target = TRACKS
    THEN Contains(Lower(error), <<"selected", "track">>)
    ELSE Contains(Lower(error), <<"selected", "clip">>)

\* _is_target_clarification satisfied with either word
_is_target_clarification_Either(question) ==
    \/ Contains(Lower(question), <<"clip">>)
    \/ Contains(Lower(question), <<"track">>)

\* bridge.py 83-87
_is_target_clarification(question) ==
    /\ Contains(Lower(question), <<"clip">>)
    /\ Contains(Lower(question), <<"track">>)

\* d with key k set to v (a new dict: the argument is not changed)
With(d, k, v) == Dict([x \in Keys(d) \cup {k} |-> IF x = k THEN v ELSE d.d[x]])

_ctx_for_target(ctx, forced_target) ==
    LET cleared == IF forced_target = TRACKS THEN With(ctx, "selected_items", List(<<>>))
                   ELSE IF forced_target = CLIPS
                   THEN With(ctx, "selected_tracks", List(<<>>))
                   ELSE ctx
    IN  IF ~IsNone(forced_target) THEN With(cleared, "forced_target", forced_target)
        ELSE cleared

_cmd_for_target(command, forced_target) ==
    IF forced_target = TRACKS
    THEN command \o <<"\n", "User clarified target:", "selected", "track", "s", ".">>
    ELSE IF forced_target = CLIPS
    THEN command \o <<"\n", "User clarified target:", "selected", "clip", "s", ".">>
    ELSE command

\* EffectiveTarget reading forced_target alone
EffectiveTarget_IgnoresAnswer(forced_target, clarification_answer) == forced_target

\* bridge.py 120-121: the clarification answer stands in for a missing target
EffectiveTarget(forced_target, clarification_answer) ==
    IF IsNone(forced_target) /\ ~IsNone(clarification_answer)
    THEN clarification_answer
    ELSE forced_target

NoValidation == [ran |-> FALSE, ok |-> FALSE, error |-> Null]

\* what process_payload did besides building the response
Stat(planner_calls, forced_target, planning_ctx, plan, validation) ==
    [planner_calls |-> planner_calls,
     forced_target |-> forced_target,
     planning_ctx |-> planning_ctx,
     plan |-> plan,
     validation |-> validation]

\* bridge.py 138-175: after plan_tool_calls returned `plan`
AfterPlan(plan, forced_target, planning_ctx) ==
    LET v == validate_tool_plan(plan, planning_ctx)
        ran == [ran |-> TRUE, ok |-> v.ok, error |-> v.error]
        st(validation) == Stat(1, forced_target, planning_ctx, plan, validation)
    IN
    IF plan.d.needs_clarification.b
    THEN IF ~IsNone(forced_target)
         THEN IF /\ IsStr(plan.d.clarification_question)
                 /\ _is_target_clarification(plan.d.clarification_question.s)
              THEN [response |-> Failure(_target_error(forced_target)),
                    stat |-> st(NoValidation)]
              ELSE [response |->
                        Failure(<<"Could not resolve command after clarification", ".",
                                  "Try a more specific command", ".">>),
                    stat |-> st(NoValidation)]
         ELSE [response |->
                   _response(TRUE, TRUE, plan.d.clarification_question, Null,
                             <<(<<"Clarification needed before generating a preview", ".">>)>>,
                             <<>>),
               stat |-> st(NoValidation)]
    ELSE IF ~v.ok
    THEN IF ~IsNone(forced_target)
         THEN IF IsStr(v.error) /\ _is_target_selection_error(v.error.s, forced_target)
              THEN [response |-> Failure(_target_error(forced_target)), stat |-> st(ran)]
              ELSE [response |-> Failure(<<"Validation error:">> \o v.error.s),
                    stat |-> st(ran)]
         ELSE IF ~IsNone(suggestion_for_error(v.error.s, planning_ctx))
         THEN [response |->
                   _response(TRUE, TRUE, suggestion_for_error(v.error.s, planning_ctx),
                             Null,
                             <<(<<"Clarification needed before generating a preview", ".">>)>>,
                             <<>>),
               stat |-> st(ran)]
         ELSE [response |-> Failure(<<"Validation error:">> \o v.error.s),
               stat |-> st(ran)]
    ELSE [response |->
              _response(TRUE, FALSE, Null, Null,
                        render_preview_text(plan.d.tool_calls.l, planning_ctx),
                        plan.d.tool_calls.l),
          stat |-> st(ran)]

\* process_payload handing the planner's parsed object on as it came, neither
\* enforced nor validated
process_payload_unchecked(pl, oc) ==
    IF /\ IsStr(Get(pl, "cmd")) /\ IsDict(Get(pl, "ctx"))
       /\ oc.kind = "raw"
       /\ IsList(Get(oc.plan, "tool_calls"))
       /\ Get(oc.plan, "tool_calls").l # <<>>
    THEN [response |->
              _response(TRUE, FALSE, Null, Null, <<>>, Get(oc.plan, "tool_calls").l),
          stat |-> Stat(1, Null, Get(pl, "ctx"), oc.plan, NoValidation)]
    ELSE [response |-> Failure(<<"Unexpected planning error:">>),
          stat |-> Stat(0, Null, Null, Null, NoValidation)]

\* process_payload(payload) when the planner behaves as `oc` says
process_payload(pl, oc) ==
    LET command == Get(pl, "cmd")
        ctx == Get(pl, "ctx")
        forced == _normalize_target(Get(pl, "forced_target"))
        answer == _normalize_target(Get(pl, "clarification_answer"))
        forced_target == EffectiveTarget(forced, answer)
        conversation_hint == _normalize_conversation_hint(Get(pl, "conversation_hint"))
        targeted == _ctx_for_target(ctx, forced_target)
        planning_ctx == IF ~IsNone(conversation_hint)
                        THEN With(targeted, "conversation_hint", conversation_hint)
                        ELSE targeted
        planning_cmd == _cmd_for_target(Strip(command.s), forced_target)
        got == plan_tool_calls(planning_cmd, planning_ctx, oc)
        st == Stat(1, forced_target, planning_ctx, Null, NoValidation)
    IN
    IF ~IsStr(command) \/ Strip(command.s) = <<>>
    THEN [response |-> Failure(<<"Input error:", "cmd must be a non-empty string", ".">>),
          stat |-> Stat(0, Null, Null, Null, NoValidation)]
    ELSE IF ~IsDict(ctx)
    THEN [response |-> Failure(<<"Input error:", "ctx must be an object", ".">>),
          stat |-> Stat(0, Null, Null, Null, NoValidation)]
    ELSE IF got.kind = "GeminiNotConfiguredError"
    THEN [response |-> Failure(got.error.s), stat |-> st]
    ELSE IF got.kind = "GeminiAgentError"
    THEN [response |-> Failure(<<"Gemini planning error:">> \o got.error.s), stat |-> st]
    ELSE IF got.kind # "return"
    THEN [response |-> Failure(<<"Unexpected planning error:">> \o got.error.s),
          stat |-> st]
    ELSE AfterPlan(got.plan, forced_target, planning_ctx)

\* CallerCtx when planning_ctx is the caller's own object, not a copy of it
CallerCtx_Aliased(ctx, planning_ctx) == planning_ctx

\* bridge.py 91, 124-125: the caller's ctx object once process_payload is done.
\* planning_ctx is a copy.deepcopy of it, so what is stored into planning_ctx
\* (selected_items, selected_tracks, forced_target, conversation_hint) does not
\* reach it, and nothing else stores into either
CallerCtx(ctx, planning_ctx) == ctx

\* the payload object once process_payload is done: `planning_ctx` is None when
\* it returned before line 124
PayloadAfter(pl, planning_ctx) ==
    IF IsNone(planning_ctx) THEN pl
    ELSE With(pl, "ctx", CallerCtx(Get(pl, "ctx"), planning_ctx))

---------------------------------------------------------------------------
(* The inputs the model draws: selection contexts, tool calls and plans *)

Clip(i) ==
    Dict([start |-> FloatV(400 + 21 * i), end |-> FloatV(420 + 21 * i),
          length |-> FloatV(20)])
Track(i) == Dict([name |-> Str(<<"Track", ToString(i)>>), index |-> IntV(i)])

TimeSelections ==
    {Null,
     Dict([start |-> FloatV(420), end |-> FloatV(460)]),
     Dict([start |-> FloatV(420), end |-> FloatV(420)])}

Ctx(clips, tracks, ts) ==
    Dict([selected_items |-> List([i \in 1..clips |-> Clip(i)]),
          selected_tracks |-> List([i \in 1..tracks |-> Track(i)]),
          time_selection |-> ts,
          cursor |-> FloatV(430)])

Contexts ==
    {Ctx(c, k, ts) : c \in 0..MaxClips, k \in 0..MaxTracks, ts \in TimeSelections}

Call(name, args) == Dict([name |-> Str(<<name>>), args |-> args])
Arg(key, v) == Dict(key :> v)

SecondsValues ==
    {FloatV(0), FloatV(5), IntV(2), FloatV(100), FloatV(105), FloatV(300), FloatV(310),
     Bool(TRUE)}

ToolCalls ==
    {Call(n, Arg("seconds", v)) :
        n \in {"fade_in", "fade_out", "crossfade", "cut_middle"}, v \in SecondsValues}
    \cup {Call("crossfade", EmptyDict),
          Call("fade_in", Dict([seconds |-> FloatV(20), curve |-> IntV(1)])),
          Call("cut_middle", Arg("seconds", HugeInt))}
    \cup {Call("set_volume_delta", Arg("db", v)) :
            v \in {FloatV(-250), FloatV(-240), IntV(3), FloatV(240), FloatV(250),
                   Bool(TRUE)}}
    \cup {Call("set_volume_delta", Arg("percent", v)) :
            v \in {FloatV(-910), FloatV(-900), FloatV(2000), FloatV(2010),
                   Str(<<"50%">>)}}
    \cup {Call("set_volume_delta", Dict([db |-> FloatV(30), percent |-> FloatV(100)])),
          Call("set_volume_delta", EmptyDict)}
    \cup {Call("set_volume_set", Arg("percent", v)) :
            v \in {FloatV(-10), FloatV(0), FloatV(2000), FloatV(2010)}}
    \cup {Call("set_pan", Arg("pan", v)) :
            v \in {IntV(-101), IntV(-100), IntV(0), IntV(100), IntV(150), FloatV(5),
                   Bool(TRUE)}}
    \cup {Call("add_fx", Arg("type", v)) :
            v \in {Str(<<"eq">>), Str(<<"delay">>), IntV(1)}}
    \cup {Call(n, a) : n \in NO_ARG_TOOLS, a \in {EmptyDict, Arg("seconds", FloatV(10))}}
    \cup {Call("duplicate", Arg("count", v)) :
            v \in {IntV(0), IntV(1), IntV(32), IntV(33), Bool(TRUE), FloatV(20)}}
    \cup {Call("delete_all", EmptyDict),
          Dict([name |-> IntV(1), args |-> EmptyDict]),
          Str(<<"mute">>),
          Dict([name |-> Str(<<"mute">>), args |-> EmptyDict, id |-> IntV(1)]),
          Dict([name |-> Str(<<"mute">>)]),
          Dict([name |-> Str(<<"mute">>), args |-> List(<<>>)])}

\* the calls that may precede the last call of a plan: a clip tool, a track
\* tool, a no-argument tool and a call whose argument is out of range
EarlierCalls ==
    {Call("fade_in", Arg("seconds", FloatV(20))),
     Call("set_pan", Arg("pan", IntV(0))),
     Call("mute", EmptyDict),
     Call("duplicate", Arg("count", IntV(33)))}

RECURSIVE SeqsUpTo(_, _)
SeqsUpTo(S, n) ==
    IF n = 0 THEN {<<>>}
    ELSE SeqsUpTo(S, n - 1)
         \cup {Append(q, x) : q \in {p \in SeqsUpTo(S, n - 1) : Len(p) = n - 1}, x \in S}

\* the tool_calls lists: 1 .. MaxCalls calls
CallLists == {Append(q, c) : q \in SeqsUpTo(EarlierCalls, MaxCalls - 1), c \in ToolCalls}

Questions ==
    {Str(<<"Do you mean the", "Clip", "or the", "track", "?">>),
     Str(<<" ", "How many seconds", "?", " ">>),
     Str(<<"Which", "track", "?">>)}

\* plans in a shape neither checker accepts
MisshapenPlans ==
    {Plan(List(<<>>), Bool(FALSE), Null),
     Plan(List(<<Call("mute", EmptyDict)>>), Bool(TRUE),
          Str(<<"Which", "track", "?">>)),
     Plan(List(<<Call("mute", EmptyDict)>>), Bool(FALSE),
          Str(<<"Which", "track", "?">>)),
     Plan(List(<<>>), Bool(TRUE), Null),
     Plan(List(<<>>), Bool(TRUE), Str(<<" ", " ">>)),
     Plan(List(<<>>), Bool(TRUE), Str(<<>>)),
     Plan(List(<<>>), IntV(1), Str(<<"Which", "track", "?">>)),
     Plan(List(<<Call("mute", EmptyDict)>>), Null, Null),
     Plan(Null, Bool(FALSE), Null),
     Plan(EmptyDict, Bool(TRUE), Str(<<"Which", "track", "?">>)),
     Dict([tool_calls |-> List(<<Call("mute", EmptyDict)>>),
           needs_clarification |-> Bool(FALSE)]),
     Dict([tool_calls |-> List(<<Call("mute", EmptyDict)>>),
           needs_clarification |-> Bool(FALSE),
           clarification_question |-> Null,
           notes |-> Str(<<"ok">>)]),
     EmptyDict}

RawPlans ==
    {Plan(List(q), Bool(FALSE), Null) : q \in CallLists}
    \cup {Plan(List(<<>>), Bool(TRUE), q) : q \in Questions}
    \cup MisshapenPlans

---------------------------------------------------------------------------
(* validate_tool_plan applied to a drawn plan and context *)

Idle == [t |-> "idle"]
\* no command is being handled (a command is never empty once stripped)
NoCommand == <<>>
NoPlanner == [kind |-> "none"]

\* the control loop is not running
LoopIdle ==
    /\ lpc = "off"
    /\ lctx = Idle
    /\ lcmd = NoCommand
    /\ lresp = Idle
    /\ lcalls = 0
    /\ history = Idle
    /\ lexec = Idle

\* bridge.main is not running
MainIdle == mrun = Idle /\ mout = Idle

\* no CommandHistory is exercised on its own
HistoryIdle == hcalls = <<>>

NotRun == [done |-> FALSE, ok |-> FALSE, error |-> Null, at |-> 0, raised |-> FALSE]

InitValidate ==
    /\ vplan \in RawPlans
    /\ vctx \in Contexts
    /\ vout = NotRun
    /\ payload = Idle
    /\ outcome = Idle
    /\ response = Idle
    /\ pstat = Idle
    /\ LoopIdle
    /\ MainIdle
    /\ HistoryIdle

Validate ==
    /\ ~vout.done
    /\ vout' = ValidateOutcome(vplan, vctx)
    /\ UNCHANGED <<vplan, vctx, bvars, lvars, mvars, hvars>>

NextValidate == Validate

SpecValidate == InitValidate /\ [][NextValidate]_vars

---------------------------------------------------------------------------
(* process_payload applied to drawn requests, the planner answering freely *)

\* what the planner returns in the pipeline runs: a valid call of every tool
\* and the ways a call can be wrong
PlannerCalls ==
    {Call(n, Arg("seconds", FloatV(5))) :
        n \in {"fade_in", "fade_out", "crossfade", "cut_middle"}}
    \cup {Call(n, EmptyDict) : n \in NO_ARG_TOOLS}
    \cup {Call("set_volume_delta", Arg("db", FloatV(30))),
          Call("set_volume_delta", Arg("percent", FloatV(100))),
          Call("set_volume_set", Arg("percent", FloatV(500))),
          Call("set_pan", Arg("pan", IntV(-20))),
          Call("add_fx", Arg("type", Str(<<"eq">>))),
          Call("duplicate", Arg("count", IntV(2))),
          Call("fade_in", Arg("seconds", FloatV(310))),
          Call("set_pan", Arg("pan", IntV(150))),
          Call("set_volume_delta", Dict([db |-> FloatV(30), percent |-> FloatV(100)])),
          Call("mute", Arg("seconds", FloatV(10))),
          Call("delete_all", EmptyDict),
          Str(<<"mute">>),
          Dict([name |-> Str(<<"mute">>), args |-> EmptyDict, id |-> IntV(1)])}

PlannerEarlierCalls ==
    {Call("fade_in", Arg("seconds", FloatV(20))), Call("set_pan", Arg("pan", IntV(0)))}

PlannerCallLists ==
    {Append(q, c) : q \in SeqsUpTo(PlannerEarlierCalls, MaxCalls - 1), c \in PlannerCalls}

Outcomes ==
    {[kind |-> "not_configured"], [kind |-> "agent_error"], [kind |-> "exception"]}
    \cup {[kind |-> "raw", plan |-> pl] :
            pl \in {Plan(List(q), Bool(FALSE), Null) : q \in PlannerCallLists}
                   \cup {Plan(List(<<>>), Bool(TRUE), q) : q \in Questions}
                   \cup MisshapenPlans}

Commands == {Str(<<" ", "fade in 2s", " ">>), Str(<<" ">>), Null}

\* (forced_target, clarification_answer) of a request
Targets ==
    {<<Null, Null>>,
     <<Str(<<"clip">>), Null>>,
     <<Str(<<" ", "TRACK", "S", " ">>), Null>>,
     <<Null, Str(<<"track", "s">>)>>,
     <<Null, Str(<<"Clip", "s">>)>>,
     <<Str(<<"track", "s">>), Str(<<"clip", "s">>)>>,
     <<Str(<<"both">>), Str(<<"clip">>)>>,
     <<Str(<<"both">>), Null>>,
     <<IntV(1), Str(<<"everything">>)>>}

Hints ==
    {Null, Dict([last_intent |-> Str(<<" ", "fade", " ">>), pending_intent |-> Str(<<" ">>)])}

\* a request object; an absent optional key is left out
Request(cmd, ctx, target, hint) ==
    LET given == [cmd |-> cmd, ctx |-> ctx, forced_target |-> target[1],
                  clarification_answer |-> target[2], conversation_hint |-> hint]
        present == {k \in DOMAIN given : ~IsNone(given[k])}
    IN  Dict([k \in present |-> given[k]])

Payloads ==
    {Request(c, x, t, h) :
        c \in Commands, x \in Contexts \cup {Null, List(<<>>)}, t \in Targets, h \in Hints}

\* whether process_payload reaches plan_tool_calls
CallsPlanner(pl) ==
    /\ IsStr(Get(pl, "cmd")) /\ Strip(Get(pl, "cmd").s) # <<>>
    /\ IsDict(Get(pl, "ctx"))

\* a bridge run holds the request it was started with
Init ==
    /\ vplan = Idle
    /\ vctx = Idle
    /\ vout = NotRun
    /\ payload \in Payloads
    /\ outcome = Idle
    /\ response = Idle
    /\ pstat = Idle
    /\ LoopIdle
    /\ MainIdle
    /\ HistoryIdle

\* the run's request handled by process_payload; `NoPlanner` when it returns
\* before plan_tool_calls
ProcessPayload ==
    /\ response = Idle
    /\ \E oc \in IF CallsPlanner(payload) THEN Outcomes ELSE {NoPlanner} :
            /\ outcome' = oc
            /\ response' = process_payload(payload, oc).response
            /\ pstat' = process_payload(payload, oc).stat
            /\ payload' = PayloadAfter(payload, process_payload(payload, oc).stat.planning_ctx)
            /\ UNCHANGED <<vvars, lvars, mvars, hvars>>

Next == ProcessPayload

Spec == Init /\ [][Next]_vars

---------------------------------------------------------------------------
(* history.py *)

\* CommandHistory(limit)
CommandHistory(limit) == [limit |-> limit, items |-> <<>>]

\* HistoryAdd putting the new entry last
HistoryAdd_Appends(h, cmd, tool_calls) ==
    IF Strip(cmd) = <<>> THEN h
    ELSE LET inserted == h.items \o <<[command |-> Strip(cmd), tool_calls |-> tool_calls]>>
         IN  [h EXCEPT !.items =
                SubSeq(inserted, 1, IF Len(inserted) < h.limit THEN Len(inserted)
                                    ELSE h.limit)]

\* CommandHistory.add(cmd, tool_calls); the entry's timestamp is left out
HistoryAdd(h, cmd, tool_calls) ==
    IF Strip(cmd) = <<>> THEN h
    ELSE LET inserted == <<[command |-> Strip(cmd), tool_calls |-> tool_calls]>> \o h.items
         IN  [h EXCEPT !.items =
                SubSeq(inserted, 1, IF Len(inserted) < h.limit THEN Len(inserted)
                                    ELSE h.limit)]

\* history.py 10 and 17: `cmd or ""` and `tool_calls or []`
OrEmpty(v) == IF IsNone(v) THEN <<>> ELSE IF IsStr(v) THEN v.s ELSE v.l

\* history.py 22-23: items()
HistoryItems(h) == h.items

\* the cmd and tool_calls arguments add is called with
AddCommands == {Null, Str(<<" ">>), Str(<<" ", "mute", " ">>), Str(<<"fade in 2s">>)}
AddToolCalls == {Null, List(<<Call("mute", EmptyDict)>>)}

\* a CommandHistory of some limit, nothing added yet
InitHistory ==
    /\ vplan = Idle
    /\ vctx = Idle
    /\ vout = NotRun
    /\ payload = Idle
    /\ outcome = Idle
    /\ response = Idle
    /\ pstat = Idle
    /\ lpc = "off"
    /\ lctx = Idle
    /\ lcmd = NoCommand
    /\ lresp = Idle
    /\ lcalls = 0
    /\ lexec = Idle
    /\ MainIdle
    /\ history \in {CommandHistory(limit) : limit \in 0..MaxLimit}
    /\ hcalls = <<>>

\* one call history.add(cmd, tool_calls)
Add ==
    /\ Len(hcalls) < MaxAdds
    /\ \E cmd \in AddCommands, tool_calls \in AddToolCalls :
        /\ history' = HistoryAdd(history, OrEmpty(cmd), OrEmpty(tool_calls))
        /\ hcalls' = Append(hcalls, [cmd |-> cmd, tool_calls |-> tool_calls])
    /\ UNCHANGED <<vvars, bvars, lpc, lctx, lcmd, lresp, lcalls, lexec, mvars>>

NextHistory == Add

SpecHistory == InitHistory /\ [][NextHistory]_vars

---------------------------------------------------------------------------
(* main.py *)

mock_ctx_none == Ctx(0, 0, Null)

mock_ctx_clip ==
    Dict([selected_items |->
              List(<<Dict([start |-> FloatV(421), end |-> FloatV(451),
                           length |-> FloatV(30)])>>),
          selected_tracks |-> List(<<>>),
          time_selection |-> Null,
          cursor |-> FloatV(430)])

mock_ctx_two_clips ==
    Dict([selected_items |->
              List(<<Dict([start |-> FloatV(421), end |-> FloatV(441),
                           length |-> FloatV(20)]),
                     Dict([start |-> FloatV(442), end |-> FloatV(462),
                           length |-> FloatV(20)])>>),
          selected_tracks |-> List(<<>>),
          time_selection |-> Null,
          cursor |-> FloatV(441)])

mock_ctx_track ==
    Dict([selected_items |-> List(<<>>),
          selected_tracks |->
              List(<<Dict([name |-> Str(<<"Track", "1">>), index |-> IntV(1)])>>),
          time_selection |-> Null,
          cursor |-> FloatV(430)])

mock_ctx_time ==
    Dict([selected_items |-> List(<<>>),
          selected_tracks |-> List(<<>>),
          time_selection |-> Dict([start |-> FloatV(420), end |-> FloatV(460)]),
          cursor |-> FloatV(430)])

\* " ".join(text.split()): the tokens without the whitespace
Words(text) == SelectSeq(text, LAMBDA tok : tok # " ")

\* the context a selection command switches to, None for any other command
_set_context_from_command(command) ==
    LET normalized == Words(Lower(Strip(command)))
    IN  CASE normalized = <<"select", "a", "track">> -> mock_ctx_track
          [] normalized = <<"select", "a", "clip">> -> mock_ctx_clip
          [] normalized = <<"select", "two", "clip", "s">> -> mock_ctx_two_clips
          [] normalized = <<"select", "a", "time", "range">> -> mock_ctx_time
          [] normalized = <<"clear", "selection">> -> mock_ctx_none
          [] OTHER -> Null

\* what the user may type at the prompt
TypedCommands ==
    {<<"q">>, <<"quit">>, <<" ", "exit">>,
     <<>>, <<" ">>,
     <<"select", " ", "a", " ", "track">>, <<"Select", " ", "a", " ", "Clip">>,
     <<"select", " ", "two", " ", "clip", "s">>,
     <<"select", " ", "a", " ", "time", " ", "range">>,
     <<"clear", " ", "selection">>,
     <<"mute">>, <<" ", "fade in 2s">>}

TypedAnswers == {<<"clip", "s">>, <<" ", "TRACK", " ">>, <<"track", "s">>, <<"both">>, <<>>}

TypedConfirmations == {<<"y">>, <<" ", "YES">>, <<"n">>, <<>>}

\* what the planner answers in the control-loop runs
LoopOutcomes ==
    {[kind |-> "not_configured"], [kind |-> "agent_error"]}
    \cup {[kind |-> "raw", plan |-> pl] :
            pl \in {Plan(List(<<Call("mute", EmptyDict)>>), Bool(FALSE), Null),
                    Plan(List(<<Call("crossfade", Arg("seconds", FloatV(5))),
                                Call("set_pan", Arg("pan", IntV(-20)))>>),
                         Bool(FALSE), Null),
                    Plan(List(<<Call("delete_all", EmptyDict)>>), Bool(FALSE), Null),
                    Plan(List(<<>>), Bool(TRUE),
                         Str(<<"Do you mean the", "Clip", "or the", "track", "?">>)),
                    Plan(List(<<>>), Bool(TRUE), Str(<<"How many seconds", "?">>))}}

\* the state after main() printed its banner
InitLoop ==
    /\ vplan = Idle
    /\ vctx = Idle
    /\ vout = NotRun
    /\ payload = Idle
    /\ outcome = Idle
    /\ response = Idle
    /\ pstat = Idle
    /\ lpc = "prompt"
    /\ lctx = mock_ctx_none
    /\ lcmd = NoCommand
    /\ lresp = Idle
    /\ lcalls = 0
    /\ history = CommandHistory(HistoryLimit)
    /\ lexec = Idle
    /\ MainIdle
    /\ HistoryIdle

\* back at the prompt: the command's locals are dead
ToPrompt ==
    /\ lpc' = "prompt"
    /\ lcmd' = NoCommand
    /\ lresp' = Idle

\* RecordedCalls recording no tool calls
RecordedCalls_None(resp) == <<>>

\* main.py 119: response.get("tool_calls") or [], what history.add is given
RecordedCalls(resp) == resp.tool_calls

\* main.py 106-156 up to the next input(): the command typed at "> "; the
\* step makes no call of execute_tool_calls
ReadCommand ==
    /\ lpc = "prompt"
    /\ lexec' = Idle
    /\ \E typed \in TypedCommands :
        LET command == Strip(typed)
            next_ctx == _set_context_from_command(command)
        IN  IF command \in {<<"q">>, <<"quit">>, <<"exit">>}
            THEN /\ lpc' = "exit"
                 /\ UNCHANGED <<lctx, lcmd, lresp, lcalls, history>>
            ELSE IF command = <<>>
            THEN UNCHANGED <<lpc, lctx, lcmd, lresp, lcalls, history>>
            ELSE IF ~IsNone(next_ctx)
            THEN /\ lctx' = next_ctx
                 /\ UNCHANGED <<lpc, lcmd, lresp, lcalls, history>>
            ELSE \E oc \in LoopOutcomes :
                 LET first == process_payload(Dict([cmd |-> Str(command), ctx |-> lctx]), oc)
                 IN  /\ Len(history.items) < MaxCommands
                     /\ lcalls' = first.stat.planner_calls
                     /\ history' = HistoryAdd(history, command, RecordedCalls(first.response))
                     /\ lctx' = CallerCtx(lctx, first.stat.planning_ctx)
                     /\ IF ~first.response.ok
                        THEN ToPrompt
                        ELSE /\ lpc' = IF first.response.needs_clarification
                                       THEN "answer" ELSE "apply"
                             /\ lcmd' = command
                             /\ lresp' = first.response
    /\ UNCHANGED <<vvars, bvars, mvars, hvars>>

\* AnswerNext asking for the target again when the follow-up failed
AnswerNext_Retries(follow_up) ==
    IF ~follow_up.ok THEN "answer"
    ELSE IF follow_up.needs_clarification THEN "prompt"
    ELSE "apply"

\* main.py 143-154: where the loop goes after the follow-up response
AnswerNext(follow_up) ==
    IF ~follow_up.ok THEN "prompt"
    ELSE IF follow_up.needs_clarification THEN "prompt"
    ELSE "apply"

\* main.py 128-154: the answer typed at "Answer (clips/tracks): "; the step
\* makes no call of execute_tool_calls
ReadAnswer ==
    /\ lpc = "answer"
    /\ lexec' = Idle
    /\ \E typed \in TypedAnswers :
        LET answer == Lower(Strip(typed))
            forced_target == IF answer[1] = "track" THEN TRACKS ELSE CLIPS
        IN  IF answer \notin {<<"clip", "s">>, <<"clip">>, <<"track", "s">>, <<"track">>}
            THEN ToPrompt /\ UNCHANGED <<lcalls, lctx>>
            ELSE \E oc \in LoopOutcomes :
                 LET follow_up ==
                        process_payload(Dict([cmd |-> Str(lcmd), ctx |-> lctx,
                                              forced_target |-> forced_target,
                                              clarification_answer |-> forced_target]), oc)
                 IN  /\ lcalls' = lcalls + follow_up.stat.planner_calls
                     /\ lctx' = CallerCtx(lctx, follow_up.stat.planning_ctx)
                     /\ IF AnswerNext(follow_up.response) = "prompt"
                        THEN ToPrompt
                        ELSE /\ lpc' = AnswerNext(follow_up.response)
                             /\ lresp' = IF lpc' = "apply" THEN follow_up.response ELSE lresp
                             /\ UNCHANGED lcmd
    /\ UNCHANGED <<history, vvars, bvars, mvars, hvars>>

\* Confirmed taking any answer for a yes
Confirmed_AnyAnswer(apply_now) == TRUE

\* main.py 158: apply_now in {"y", "yes"}
Confirmed(apply_now) == apply_now \in {<<"y">>, <<"yes">>}

\* main.py 156-162: the answer typed at "Apply? (y/n) "; lexec is the call of
\* execute_tool_calls the step makes, with the answer that let it through
ReadApply ==
    /\ lpc = "apply"
    /\ \E typed \in TypedConfirmations :
        LET apply_now == Lower(Strip(typed))
        IN  IF Confirmed(apply_now)
            THEN lexec' = [tool_calls |-> lresp.tool_calls, ctx |-> lctx,
                           apply_now |-> apply_now]
            ELSE lexec' = Idle
    /\ ToPrompt
    /\ UNCHANGED <<lctx, lcalls, history, vvars, bvars, mvars, hvars>>

NextLoop == ReadCommand \/ ReadAnswer \/ ReadApply

SpecLoop == InitLoop /\ [][NextLoop]_vars

\* input() blocks until a line is typed: at "Answer (clips/tracks): " and at
\* "Apply? (y/n) " the user eventually types one
SpecLoopFair == SpecLoop /\ WF_vars(ReadAnswer) /\ WF_vars(ReadApply)

---------------------------------------------------------------------------
(* bridge.py main: one run of the bridge *)

\* float("inf"), which json.loads reads from the literal Infinity
Infinity == [t |-> "float", n |-> 0, inf |-> TRUE]
IsInfinite(v) == v.t = "float" /\ "inf" \in DOMAIN v

\* preview.py 30-33: int(seconds // 60) raises ValueError for an infinite value
_fmt_time_raises(seconds) == IsInfinite(seconds)

\* preview.py 139-150: build_preview formats the least start and the greatest
\* end of the clips whose start and end are both >= 0; it raises when
\* _fmt_time does
build_preview_raises(tool_calls, ctx) ==
    LET clips == _selected_items(ctx)
        names == Names(tool_calls)
        uses_clips == \/ names \cap ClipTools # {}
                      \/ "duplicate" \in names /\ Len(clips) > 0
        NonNegative(v) == IsInfinite(v) \/ (_is_number(v) /\ v.n >= 0)
        kept == {i \in 1..Len(clips) :
                    /\ IsDict(clips[i])
                    /\ NonNegative(Get(clips[i], "start"))
                    /\ NonNegative(Get(clips[i], "end"))}
    IN  /\ uses_clips
        /\ kept # {}
        /\ \/ \A i \in kept : _fmt_time_raises(Get(clips[i], "start"))
           \/ \E i \in kept : _fmt_time_raises(Get(clips[i], "end"))

\* process_payload raises: validate_tool_plan raised (bridge.py 156), or it got
\* as far as render_preview_text (bridge.py 173) and build_preview raised
\* `result` is what process_payload comes to when neither raises
process_payload_raises(result) ==
    \/ /\ ~IsNone(result.stat.plan)
       /\ ~result.stat.plan.d.needs_clarification.b
       /\ validate_tool_plan_raises(result.stat.plan, result.stat.planning_ctx)
    \/ /\ result.response.ok
       /\ ~result.response.needs_clarification
       /\ build_preview_raises(result.response.tool_calls, result.stat.planning_ctx)

\* bridge.py 205-206: process_payload on the input read, when it is an object
Processed(run) ==
    IF run.input.kind = "object" THEN process_payload(run.input.payload, run.oc) ELSE Idle

\* bridge.py 204-212: the response main holds after reading the input and
\* calling process_payload, every exception caught
MainResponse(input, result) ==
    IF input.kind = "bad_json"
    THEN Failure(<<"Invalid JSON input:", "Expecting value">>)
    ELSE IF input.kind = "missing_file"
    THEN Failure(<<"Input file error:", "No such file or directory">>)
    ELSE IF input.kind = "not_object"
    THEN Failure(<<"Bridge failure:", "Input JSON must be an object", ".">>)
    ELSE IF process_payload_raises(result)
    THEN Failure(<<"Bridge failure:", "exception message">>)
    ELSE result.response

\* ExitCode returning 0 whatever the response
ExitCode_AlwaysZero(resp) == 0

\* bridge.py 221: return 0 if response.get("ok") else 1
ExitCode(resp) == IF resp.ok THEN 0 ELSE 1

\* what a run leaves behind: the last response object main built, what it wrote
\* to the output file and to stdout (Null: nothing), its completion code, and
\* whether an exception left main (the interpreter then exits with 1)
MainResult(resp, file, stdout, code, raised) ==
    [response |-> resp, file |-> file, stdout |-> stdout, code |-> code,
     raised |-> raised]

\* bridge.py 192-221: main, `resp` the response of its first try block
BridgeMain(run, resp) ==
    LET usage == Failure(<<"Usage:", "python3 -m reaper_py.bridge <input.json> <output.json>">>)
        fallback == Failure(<<"Bridge failed to write output", ".">>)
    IN  IF run.argv = "other"
        THEN IF run.stdout_fails
             THEN MainResult(usage, Null, Null, 1, TRUE)
             ELSE MainResult(usage, Null, usage, 1, FALSE)
        ELSE IF run.argv = "files"
        THEN IF ~run.file_fails
             THEN MainResult(resp, resp, Null, ExitCode(resp), FALSE)
             ELSE IF run.stdout_fails
             THEN MainResult(fallback, Null, Null, 1, TRUE)
             ELSE MainResult(fallback, Null, fallback, 1, FALSE)
        ELSE IF run.stdout_fails
        THEN MainResult(resp, Null, Null, 1, FALSE)
        ELSE MainResult(resp, Null, resp, ExitCode(resp), FALSE)

\* a context whose one clip never ends
InfiniteClipCtx ==
    Dict([selected_items |->
              List(<<Dict([start |-> FloatV(421), end |-> Infinity,
                           length |-> Infinity])>>),
          selected_tracks |-> List(<<>>),
          time_selection |-> Null,
          cursor |-> FloatV(430)])

MainPayloads ==
    {Request(c, x, t, Null) :
        c \in {Str(<<"fade in 2s">>), Null},
        x \in {Ctx(1, 1, Null), Ctx(0, 0, Null), InfiniteClipCtx, Null},
        t \in {<<Null, Null>>, <<Str(<<"clip">>), Null>>}}

\* what reading the input gives
MainInputs ==
    {[kind |-> "object", payload |-> pl] : pl \in MainPayloads}
    \cup {[kind |-> "not_object"], [kind |-> "bad_json"], [kind |-> "missing_file"]}

MainOutcomes ==
    {[kind |-> "not_configured"], [kind |-> "agent_error"], [kind |-> "exception"]}
    \cup {[kind |-> "raw", plan |-> pl] :
            pl \in {Plan(List(<<Call("fade_in", Arg("seconds", FloatV(20)))>>),
                         Bool(FALSE), Null),
                    Plan(List(<<Call("mute", EmptyDict)>>), Bool(FALSE), Null),
                    Plan(List(<<Call("set_pan", Arg("pan", IntV(150)))>>),
                         Bool(FALSE), Null),
                    Plan(List(<<Call("fade_in", Arg("seconds", HugeInt))>>),
                         Bool(FALSE), Null),
                    Plan(List(<<>>), Bool(TRUE), Str(<<"How many seconds", "?">>)),
                    EmptyDict}}

\* the runs: argv is the program name alone ("stdio"), the program name and two
\* paths ("files"), or anything else ("other"); a file can be missing only
\* when a path was given
MainRuns ==
    {r \in [argv : {"stdio", "files", "other"}, input : MainInputs, oc : MainOutcomes,
            file_fails : BOOLEAN, stdout_fails : BOOLEAN] :
        /\ r.input.kind = "missing_file" => r.argv = "files"
        /\ r.file_fails => r.argv = "files"}

InitMain ==
    /\ vplan = Idle
    /\ vctx = Idle
    /\ vout = NotRun
    /\ payload = Idle
    /\ outcome = Idle
    /\ response = Idle
    /\ pstat = Idle
    /\ LoopIdle
    /\ mrun \in MainRuns
    /\ mout = Idle
    /\ HistoryIdle

Main ==
    /\ mout = Idle
    /\ \E result \in {Processed(mrun)} :
        \E resp \in {MainResponse(mrun.input, result)} :
            mout' = BridgeMain(mrun, resp)
    /\ UNCHANGED <<vvars, bvars, lvars, mrun, hvars>>

NextMain == Main

SpecMain == InitMain /\ [][NextMain]_vars

---------------------------------------------------------------------------
(* Claims about process_payload, checked under Spec *)

Responded == response # Idle

\* the planner's parsed object of this run, when it produced one
RawPlan == IF outcome.kind = "raw" THEN outcome.plan ELSE EmptyDict
HasRawPlan == Responded /\ outcome.kind = "raw"

\* the plan _enforce_schema returned in this run, when it returned one
Enforced == Responded /\ ~IsNone(pstat.plan)

\* a request value that names a target: clip, clips, track or tracks in any
\* case, whitespace around it ignored
NamesTarget(v) ==
    /\ IsStr(v)
    /\ Lower(Strip(v.s)) \in {<<"clip">>, <<"clip", "s">>, <<"track">>, <<"track", "s">>}

TargetGiven ==
    \/ NamesTarget(Get(payload, "forced_target"))
    \/ NamesTarget(Get(payload, "clarification_answer"))

\* C1: a request whose forced_target or clarification_answer names a target is
\* never answered with a clarification: whatever the planner did, the response
\* has needs_clarification = false and clarification_question = null.
C1_ForcedTargetNeverClarifies ==
    (Responded /\ TargetGiven) =>
        /\ response.needs_clarification = FALSE
        /\ response.clarification_question = Null

\* a forced-target request whose planner asked for clarification again
C1_Witness ==
    /\ Responded /\ TargetGiven
    /\ Enforced /\ pstat.plan.d.needs_clarification = Bool(TRUE)
    /\ ~response.ok

ShapeToolCalls(p) ==
    /\ IsList(Get(p, "tool_calls")) /\ Get(p, "tool_calls").l # <<>>
    /\ Get(p, "needs_clarification") = Bool(FALSE)
    /\ Get(p, "clarification_question") = Null

ShapeClarification(p) ==
    /\ Get(p, "tool_calls") = List(<<>>)
    /\ Get(p, "needs_clarification") = Bool(TRUE)
    /\ IsStr(Get(p, "clarification_question"))
    /\ Get(p, "clarification_question").s # <<>>

\* C2: a plan returned by _enforce_schema has exactly one of the two shapes
\* (calls, no clarification, null question) or (no calls, clarification, a
\* non-empty question), and a raw plan in any other combination is rejected.
C2_EnforcedPlanShape ==
    /\ Enforced =>
        /\ Keys(pstat.plan) = PlanKeys
        /\ ShapeToolCalls(pstat.plan) # ShapeClarification(pstat.plan)
    /\ (HasRawPlan /\ ~ShapeToolCalls(RawPlan) /\ ~ShapeClarification(RawPlan)) =>
        ~Enforced /\ ~response.ok

\* the enforcer returned a clarification plan whose question it had to strip
C2_Witness ==
    /\ Enforced /\ HasRawPlan
    /\ ShapeClarification(pstat.plan)
    /\ pstat.plan.d.clarification_question # Get(RawPlan, "clarification_question")

\* C3: every tool call of a successful response is an object {name, args} whose
\* name is one of the 15 whitelisted tools and whose args key-set is one the
\* tool declares; for set_volume_delta that is exactly {db} or exactly {percent}.
C3_SuccessCallsMatchSchema ==
    (Responded /\ response.ok /\ ~response.needs_clarification) =>
        /\ Cardinality(WHITELISTED_TOOLS) = 15
        /\ \A i \in 1..Len(response.tool_calls) :
            LET c == response.tool_calls[i]
            IN  /\ IsDict(c) /\ Keys(c) = {"name", "args"}
                /\ Word(c.d.name) \in WHITELISTED_TOOLS
                /\ IsDict(c.d.args)
                /\ Keys(c.d.args) \in TOOL_ARG_KEYS[Word(c.d.name)]
                /\ Word(c.d.name) = "set_volume_delta" =>
                        Keys(c.d.args) \in {{"db"}, {"percent"}}

\* a successful response of two calls, the second a set_volume_delta
C3_Witness ==
    /\ Responded /\ response.ok
    /\ Len(response.tool_calls) = 2
    /\ Word(response.tool_calls[2].d.name) = "set_volume_delta"

\* a tool call that breaks the schema of one call
BreaksSchema(c) ==
    \/ ~IsDict(c)
    \/ Keys(c) # {"name", "args"}
    \/ Word(c.d.name) \notin WHITELISTED_TOOLS
    \/ ~IsDict(c.d.args)
    \/ Keys(c.d.args) \notin TOOL_ARG_KEYS[Word(c.d.name)]

SomeCallBreaksSchema(p) ==
    /\ IsList(Get(p, "tool_calls"))
    /\ \E i \in 1..Len(Get(p, "tool_calls").l) : BreaksSchema(Get(p, "tool_calls").l[i])

\* C4: a raw plan is taken or refused as a whole: when its top-level keys are
\* not exactly the three of the contract, or any one call breaks the schema, the
\* response is ok = false with no tool calls, whatever the other calls are.
C4_NoPartialPlan ==
    (HasRawPlan /\ (Keys(RawPlan) # PlanKeys \/ SomeCallBreaksSchema(RawPlan))) =>
        ~response.ok /\ response.tool_calls = <<>>

\* a two-call plan whose first call is valid and whose second is not
C4_Witness ==
    /\ HasRawPlan /\ Keys(RawPlan) = PlanKeys /\ IsList(RawPlan.d.tool_calls)
    /\ Len(RawPlan.d.tool_calls.l) = 2
    /\ ~BreaksSchema(RawPlan.d.tool_calls.l[1])
    /\ BreaksSchema(RawPlan.d.tool_calls.l[2])
    /\ ~response.ok

SuccessShape ==
    /\ response.ok /\ ~response.needs_clarification
    /\ response.error = Null
    /\ response.tool_calls # <<>>

ClarificationShape ==
    /\ response.ok /\ response.needs_clarification
    /\ IsStr(response.clarification_question) /\ response.clarification_question.s # <<>>
    /\ response.error = Null
    /\ response.tool_calls = <<>>

FailureShape ==
    /\ ~response.ok /\ ~response.needs_clarification
    /\ response.clarification_question = Null
    /\ IsStr(response.error) /\ response.error.s # <<>>
    /\ response.tool_calls = <<>>
    /\ response.preview = <<>>

\* C6: every response of process_payload has exactly one of the three shapes
\* success, clarification and failure.
C6_ThreeShapes ==
    Responded =>
        Cardinality({k \in {"success", "clarification", "failure"} :
                        \/ k = "success" /\ SuccessShape
                        \/ k = "clarification" /\ ClarificationShape
                        \/ k = "failure" /\ FailureShape}) = 1

\* a clarification the planner asked for, its question surrounded by blanks
C6_Witness ==
    /\ Responded /\ ClarificationShape /\ HasRawPlan
    /\ IsStr(Get(RawPlan, "clarification_question"))
    /\ Get(RawPlan, "clarification_question").s[1] = " "

---------------------------------------------------------------------------
(* Claims about validate_tool_plan, checked under SpecValidate *)

Validated == vout.done

\* the calls of the validated plan, when it is a plan of tool calls
VCalls == IF ShapeToolCalls(vplan) THEN vplan.d.tool_calls.l ELSE <<>>

\* the plan passes the schema: the three keys, and no call breaks the schema
VSchemaValid ==
    /\ Keys(vplan) = PlanKeys
    /\ ShapeToolCalls(vplan)
    /\ \A i \in 1..Len(VCalls) : ~BreaksSchema(VCalls[i])

VName(i) == IF IsDict(VCalls[i]) THEN Word(Get(VCalls[i], "name")) ELSE ""

\* the validator got as far as call i: it accepted every earlier call
Reached(i) == vout.ok \/ vout.at >= i
\* the validator returned the error of call i
RejectedAt(i) == ~vout.ok /\ vout.at = i
\* the validator went past call i
Accepted(i) == vout.ok \/ vout.at > i

VClips == Len(Get(vctx, "selected_items").l)
VTracks == Len(Get(vctx, "selected_tracks").l)
\* the context's time selection ends strictly after it starts
VTimeSelection ==
    /\ IsDict(Get(vctx, "time_selection"))
    /\ Get(vctx, "time_selection").d.end.n > Get(vctx, "time_selection").d.start.n

\* C7: a mute, unmute, solo or unsolo call of a schema-valid plan is refused
\* with a message requiring "at least 1 selected track" when no track is
\* selected, and accepted when at least one is.
C7_MuteSoloNeedTrack ==
    (Validated /\ VSchemaValid) =>
        \A i \in 1..Len(VCalls) :
            (VName(i) \in {"mute", "unmute", "solo", "unsolo"} /\ Reached(i)) =>
                IF VTracks = 0
                THEN /\ RejectedAt(i)
                     /\ Contains(vout.error.s, <<"at least 1", "selected", "track">>)
                ELSE Accepted(i)

\* C8: a plan with a trim_to_time_selection call is accepted only if the
\* context has a valid time selection and at least one selected clip.
C8_TrimNeedsTimeSelectionAndClip ==
    (Validated /\ VSchemaValid
        /\ \E i \in 1..Len(VCalls) : VName(i) = "trim_to_time_selection") =>
        (vout.ok => VTimeSelection /\ VClips >= 1)

\* C9: a plan with a split_at_cursor call is accepted only if the context has
\* at least one selected clip or a valid time selection.
C9_SplitNeedsClipOrTimeSelection ==
    (Validated /\ VSchemaValid
        /\ \E i \in 1..Len(VCalls) : VName(i) = "split_at_cursor") =>
        (vout.ok => VClips >= 1 \/ VTimeSelection)

\* call i is a crossfade whose seconds is a number in (0, 10]
CrossfadeInRange(i) ==
    /\ VName(i) = "crossfade"
    /\ ~BreaksSchema(VCalls[i])
    /\ VCalls[i].d.args.d.seconds.t \in {"int", "float"}
    /\ 0 < VCalls[i].d.args.d.seconds.n
    /\ VCalls[i].d.args.d.seconds.n <= 100

\* C10: a crossfade call with seconds in (0, 10] is accepted iff exactly 2 clips
\* are selected; with any other clip count the validator returns an error that
\* names "exactly 2".
C10_CrossfadeExactlyTwoClips ==
    Validated =>
        \A i \in 1..Len(VCalls) :
            (CrossfadeInRange(i) /\ Reached(i)) =>
                IF VClips = 2
                THEN Accepted(i)
                ELSE RejectedAt(i) /\ Contains(vout.error.s, <<"exactly 2">>)

\* a crossfade in range, second in its plan, refused with three clips selected
C10_Witness ==
    /\ Validated /\ Len(VCalls) = 2
    /\ CrossfadeInRange(2) /\ Reached(2)
    /\ VClips = 3
    /\ RejectedAt(2)

---------------------------------------------------------------------------
(* Claims about the control loop, checked under SpecLoopFair *)

\* C5: handling one command ends, after at most two planner invocations
\* (lcalls counts those of the latest command): the first request makes at most
\* one, one follow-up request makes at most one more and is sent only when the
\* first response asked for clarification, and after the follow-up the loop
\* never asks again: it goes on to the confirmation or back to the prompt, and
\* from the confirmation to the prompt. A command once taken, the loop is
\* eventually back at the prompt.
C5_AtMostTwoPlannerCalls ==
    /\ [][/\ lcalls' \in 0..2
          /\ lpc = "prompt" => lcalls' <= 1 \/ lcalls' = lcalls
          /\ lpc = "answer" =>
               /\ lcalls' <= lcalls + 1
               /\ lresp.ok /\ lresp.needs_clarification
               /\ lpc' \in {"prompt", "apply"}
          /\ lpc = "apply" => lcalls' = lcalls /\ lpc' = "prompt"]_vars
    /\ (lpc \in {"answer", "apply"}) ~> (lpc = "prompt")

\* a command resolved by the follow-up request: two planner invocations
C5_Witness == lpc = "apply" /\ lcalls = 2

---------------------------------------------------------------------------
(* Claims about the argument ranges of validate_tool_plan, checked under
   SpecValidate *)

\* call i is a schema-valid call of the tool `name`
VCallOf(i, name) == VName(i) = name /\ ~BreaksSchema(VCalls[i])

\* the value of the argument `key` of call i
VArg(i, key) == Get(Get(VCalls[i], "args"), key)

\* v is a Python int that is not a bool, lo <= v <= hi (lo, hi in tenths)
IntWithin(lo, v, hi) == v.t = "int" /\ lo <= v.n /\ v.n <= hi

\* C11: a duplicate call is accepted iff count is an integer, not a boolean,
\* with 1 <= count <= 32 and at least one clip or at least one track is
\* selected; so 0 and 33 are refused, 1 and 32 accepted.
C11_DuplicateCountAndSelection ==
    Validated =>
        \A i \in 1..Len(VCalls) :
            (VCallOf(i, "duplicate") /\ Reached(i)) =>
                /\ Accepted(i) <=>
                        /\ IntWithin(10, VArg(i, "count"), 320)
                        /\ VClips >= 1 \/ VTracks >= 1
                /\ VArg(i, "count") \in {IntV(0), IntV(33)} => RejectedAt(i)
                /\ (VArg(i, "count") \in {IntV(1), IntV(32)}
                        /\ (VClips >= 1 \/ VTracks >= 1)) => Accepted(i)

\* duplicate with count 32, second in its plan, accepted with tracks only
C11_Witness ==
    /\ Validated /\ Len(VCalls) = 2
    /\ VCallOf(2, "duplicate") /\ VArg(2, "count") = IntV(32)
    /\ VClips = 0 /\ VTracks >= 1
    /\ Accepted(2)

\* C12: a set_pan call is accepted iff pan is an integer, not a boolean, with
\* -100 <= pan <= 100 and at least one track is selected; so 150 and -101 are
\* refused, 100 and -100 accepted.
C12_SetPanRangeAndTrack ==
    Validated =>
        \A i \in 1..Len(VCalls) :
            (VCallOf(i, "set_pan") /\ Reached(i)) =>
                /\ Accepted(i) <=>
                        /\ IntWithin(-1000, VArg(i, "pan"), 1000)
                        /\ VTracks >= 1
                /\ VArg(i, "pan") \in {IntV(150), IntV(-101)} => RejectedAt(i)
                /\ (VArg(i, "pan") \in {IntV(100), IntV(-100)} /\ VTracks >= 1) =>
                        Accepted(i)

\* set_pan with pan 100 accepted, a track selected
C12_Witness ==
    /\ Validated /\ Len(VCalls) = 1
    /\ VCallOf(1, "set_pan") /\ VArg(1, "pan") = IntV(100)
    /\ VTracks >= 1
    /\ Accepted(1)

\* call i is a fade_in or fade_out whose seconds is a number in (0, 30]
FadeInRange(i) ==
    /\ VArg(i, "seconds").t \in {"int", "float"}
    /\ 0 < VArg(i, "seconds").n
    /\ VArg(i, "seconds").n <= 300

\* C13: a fade_in or fade_out call with 0 < seconds <= 30 is accepted whenever
\* at least one clip is selected or the time selection is valid, and refused
\* when seconds is outside (0, 30] or when there is neither a selected clip nor
\* a valid time selection.
C13_FadeNeedsClipOrTimeSelection ==
    Validated =>
        \A i \in 1..Len(VCalls) :
            ((VCallOf(i, "fade_in") \/ VCallOf(i, "fade_out")) /\ Reached(i)) =>
                /\ (FadeInRange(i) /\ (VClips >= 1 \/ VTimeSelection)) => Accepted(i)
                /\ (~FadeInRange(i) \/ (VClips = 0 /\ ~VTimeSelection)) => RejectedAt(i)

\* v is a Python number that is not a bool, lo <= v <= hi (in tenths)
NumberWithin(lo, v, hi) == v.t \in {"int", "float"} /\ lo <= v.n /\ v.n <= hi

\* the args of call i, a call {name, args} whose args is an object
VArgs(i) == Get(VCalls[i], "args")

\* call i is an object {name, args} named `name` whose args is an object
VNamed(i, name) ==
    /\ IsDict(VCalls[i]) /\ Keys(VCalls[i]) = {"name", "args"}
    /\ VName(i) = name
    /\ IsDict(VArgs(i))

\* C14: a set_volume_delta call is accepted iff its args hold exactly one of db,
\* a number with -24 <= db <= 24, or percent, a number with -90 <= percent <=
\* 200, and at least one track is selected; both keys, neither key, a value out
\* of range or no selected track refuse it.
C14_VolumeDeltaOneModeInRange ==
    Validated =>
        \A i \in 1..Len(VCalls) :
            (VNamed(i, "set_volume_delta") /\ Reached(i)) =>
                /\ Accepted(i) <=>
                        /\ \/ /\ Keys(VArgs(i)) = {"db"}
                              /\ NumberWithin(-240, VArg(i, "db"), 240)
                           \/ /\ Keys(VArgs(i)) = {"percent"}
                              /\ NumberWithin(-900, VArg(i, "percent"), 2000)
                        /\ VTracks >= 1
                /\ {"db", "percent"} \subseteq Keys(VArgs(i)) => RejectedAt(i)
                /\ Keys(VArgs(i)) \cap {"db", "percent"} = {} => RejectedAt(i)
                /\ VTracks = 0 => RejectedAt(i)

\* set_volume_delta with percent = -90, second in its plan, accepted
C14_Witness ==
    /\ Validated /\ Len(VCalls) = 2 /\ VNamed(2, "set_volume_delta")
    /\ VTracks >= 1
    /\ VArg(2, "percent") = FloatV(-900)
    /\ Accepted(2)

---------------------------------------------------------------------------
(* Claims about validation failures in process_payload, checked under Spec *)

\* validate_tool_plan ran in this request and refused the plan
ValidationFailed == Responded /\ pstat.validation.ran /\ ~pstat.validation.ok

\* the tokens of the error validate_tool_plan returned
ValidationError == IF ValidationFailed THEN pstat.validation.error.s ELSE <<>>

\* the selection of the request's own ctx
RequestClips == Len(_selected_items(Get(payload, "ctx")))
RequestTracks == Len(_selected_tracks(Get(payload, "ctx")))

StartsWith(text, prefix) ==
    Len(text) >= Len(prefix) /\ SubSeq(text, 1, Len(prefix)) = prefix

\* the failure is about an argument, not about the selection
ArgumentFailure == ValidationFailed /\ StartsWith(ValidationError, <<"Invalid args for">>)

\* the failure is crossfade's clip count, no track being selected
CrossfadeCountFailure ==
    /\ ValidationFailed
    /\ ValidationError = <<"crossfade", "requires", "exactly 2", "selected", "clip", "s", ".">>
    /\ RequestTracks = 0

\* C15: a validation failure that is no clip-versus-track mismatch (an argument
\* out of range, or crossfade with a clip count other than 2 and no track
\* selected) ends the request with ok = false and the error "Validation error:
\* <the validator's message>", with and without a forced target, and never with
\* a clarification.
C15_OtherFailuresAreTerminal ==
    (ArgumentFailure \/ CrossfadeCountFailure) =>
        /\ ~response.ok
        /\ ~response.needs_clarification
        /\ response.error = Str(<<"Validation error:">> \o ValidationError)

\* C16: the error "No selected tracks..." is returned only when the request's
\* ctx has no selected track, and "No selected clips..." only when it has no
\* selected clip.
C16_TargetErrorMeansEmptySelection ==
    Responded =>
        /\ response.error = Str(_target_error(TRACKS)) => RequestTracks = 0
        /\ response.error = Str(_target_error(CLIPS)) => RequestClips = 0

---------------------------------------------------------------------------
(* Claims about the context in process_payload, checked under Spec *)

\* the four selection fields of a context
SelectionFields == {"selected_items", "selected_tracks", "time_selection", "cursor"}

\* the planning context of this request, when process_payload built one
HasPlanningCtx == Responded /\ ~IsNone(pstat.planning_ctx)

\* the planning context is the request's ctx but for the field `cleared`, which
\* is the empty list
PlanningCtxClears(cleared) ==
    /\ Get(pstat.planning_ctx, cleared) = List(<<>>)
    /\ \A k \in Keys(Get(payload, "ctx")) \ {cleared} :
            Get(pstat.planning_ctx, k) = Get(Get(payload, "ctx"), k)

---------------------------------------------------------------------------
(* Claims about the bridge entry point, checked under SpecMain *)

MainDone == mout # Idle

\* the response the caller gets: the output file's content, else what stdout got
Delivered == IF mout.file # Null THEN mout.file ELSE mout.stdout

\* a response object in the failure shape: ok = false and a non-empty error
IsFailureResponse(r) ==
    /\ DOMAIN r = {"ok", "needs_clarification", "clarification_question", "error",
                   "preview", "tool_calls"}
    /\ r.ok = FALSE
    /\ IsStr(r.error) /\ r.error.s # <<>>
    /\ r.tool_calls = <<>>

\* validate_tool_plan refused the plan and no clarification came of it
ValidationEndsRun(pl, oc) ==
    /\ process_payload(pl, oc).stat.validation.ran
    /\ ~process_payload(pl, oc).stat.validation.ok
    /\ ~process_payload(pl, oc).response.needs_clarification

\* the run met a failure: of the input, of the planner, of the schema, of
\* validation or of preview rendering
RunFails ==
    \/ mrun.input.kind # "object"
    \/ ~CallsPlanner(mrun.input.payload)
    \/ mrun.oc.kind # "raw"
    \/ _enforce_schema(mrun.oc.plan).kind # "return"
    \/ process_payload_raises(Processed(mrun))
    \/ ValidationEndsRun(mrun.input.payload, mrun.oc)

\* C18: whatever fails (the planner not configured, a planner error, a schema
\* error, an unexpected exception, validation, preview rendering), a run whose
\* output can be written ends without an exception leaving main, and delivers a
\* response object with ok = false and a non-empty error; the response main
\* holds is such an object in every failing run.
C18_NoFailureEscapes ==
    (MainDone /\ mrun.argv # "other" /\ RunFails) =>
        /\ IsFailureResponse(mout.response)
        /\ (~mrun.file_fails /\ ~mrun.stdout_fails) =>
                /\ ~mout.raised
                /\ Delivered # Null
                /\ IsFailureResponse(Delivered)

\* a run whose preview rendering raised
C18_Witness ==
    /\ MainDone /\ mrun.argv = "stdio" /\ ~mrun.stdout_fails
    /\ mrun.input.kind = "object"
    /\ process_payload_raises(Processed(mrun))
    /\ IsFailureResponse(Delivered)

---------------------------------------------------------------------------
(* Claims about the completion code, checked under SpecMain *)

\* C19 as stated: in every run the completion code is zero if and only if the
\* last response main built has ok = true, runs whose output cannot be written
\* included.
C19_ExitZeroIffFinalOk ==
    MainDone => ((mout.code = 0) <=> mout.response.ok)

\* C19: the completion code is zero if and only if a response with ok = true
\* was delivered (written to the output file, or to stdout when no path was
\* given); a run that could not write its response ends with a non-zero code
\* whatever the response's ok.
C19_ExitZeroIffDeliveredOk ==
    MainDone => ((mout.code = 0) <=> (Delivered # Null /\ Delivered.ok))

\* a run over stdin/stdout whose response had ok = true and could not be written
C19_Witness ==
    /\ MainDone /\ mrun.argv = "stdio" /\ mrun.stdout_fails
    /\ mout.response.ok
    /\ mout.stdout = Null
    /\ mout.code = 1

---------------------------------------------------------------------------
(* Claims about the executor, checked under SpecLoopFair *)

MockContexts ==
    {mock_ctx_none, mock_ctx_clip, mock_ctx_two_clips, mock_ctx_track, mock_ctx_time}

\* the step calls execute_tool_calls
Executes == lexec' # Idle

\* C20: a step that calls process_payload (a command or a clarification answer
\* is read) never calls the executor; execute_tool_calls is called only from the
\* "Apply?" prompt, which is reached only with a response that has ok = true,
\* needs_clarification = false and tool calls to preview, and only when the
\* answer is y or yes; it is given that response's tool_calls and the loop's
\* context, which is still one of the selection contexts the user chose and
\* has no forced_target; a failed, clarification-pending or declined command
\* goes back to the prompt without a call.
C20_ExecutorOnlyAfterConfirmedPreview ==
    /\ [](lpc = "apply" =>
            /\ lresp.ok /\ ~lresp.needs_clarification
            /\ lresp.tool_calls # <<>> /\ lresp.preview # <<>>)
    /\ [](lpc # "off" => lctx \in MockContexts)
    /\ [][/\ lpc \in {"prompt", "answer"} => ~Executes
          /\ Executes =>
                /\ lpc = "apply"
                /\ lexec'.apply_now \in {<<"y">>, <<"yes">>}
                /\ lexec'.tool_calls = lresp.tool_calls
                /\ lexec'.ctx = lctx /\ lctx' = lctx
          /\ (lpc = "apply" /\ ~Executes) => lpc' = "prompt"]_vars

\* the executor called after a clarification round: two planner calls, then yes
C20_Witness ==
    /\ lexec # Idle
    /\ lcalls = 2
    /\ lexec.tool_calls # <<>>
    /\ lexec.ctx = mock_ctx_track

---------------------------------------------------------------------------
(* Claims about CommandHistory, checked under SpecHistory *)

\* an add call whose command is empty or only whitespace (or None)
BlankAdd(call) == IsNone(call.cmd) \/ Strip(call.cmd.s) = <<>>

\* the entry an add call with a non-empty command stores
EntryOf(call) ==
    [command |-> Strip(call.cmd.s),
     tool_calls |-> IF IsNone(call.tool_calls) THEN <<>> ELSE call.tool_calls.l]

RECURSIVE NewestFirst(_)
NewestFirst(calls) ==
    IF calls = <<>> THEN <<>>
    ELSE <<EntryOf(calls[Len(calls)])>> \o NewestFirst(SubSeq(calls, 1, Len(calls) - 1))

\* the entries of the calls made with a non-empty command, newest first
Stored == NewestFirst(SelectSeq(hcalls, LAMBDA call : ~BlankAdd(call)))

Least(a, b) == IF a < b THEN a ELSE b

\* C21: after any sequence of add calls, items() holds at most limit entries,
\* newest first: exactly the most recent min(n, limit) of the n entries added
\* with a non-empty command; an add whose command is empty or only whitespace
\* leaves the history unchanged.
C21_HistoryKeepsNewest ==
    /\ [](history # Idle =>
            /\ Len(HistoryItems(history)) <= history.limit
            /\ Len(HistoryItems(history)) = Least(Len(Stored), history.limit)
            /\ HistoryItems(history) = SubSeq(Stored, 1, Least(Len(Stored), history.limit)))
    /\ [][(hcalls' # hcalls /\ BlankAdd(hcalls'[Len(hcalls')])) => history' = history]_vars

\* a history of limit 2 after three adds with a command, one blank add between
C21_Witness ==
    /\ history # Idle /\ history.limit = 2
    /\ Len(hcalls) = 4 /\ Len(Stored) = 3
    /\ BlankAdd(hcalls[3])
    /\ Len(HistoryItems(history)) = 2
    /\ HistoryItems(history)[1].command # HistoryItems(history)[2].command

---------------------------------------------------------------------------
(* Claims about target mismatches in process_payload, checked under Spec *)

\* the request came with no usable forced_target or clarification_answer
NoForcedTarget == Responded /\ pstat.forced_target = Null

\* the validator's message names selected tracks / selected clips
NamesSelectedTracks == Contains(ValidationError, <<"selected", "track">>)
NamesSelectedClips == Contains(ValidationError, <<"selected", "clip">>)

\* a question that asks to choose between clips and tracks
AsksClipsOrTracks(q) ==
    /\ IsStr(q) /\ q.s # <<>>
    /\ Contains(Lower(q.s), <<"clip">>)
    /\ Contains(Lower(q.s), <<"track">>)

\* C22: with no forced target, a validation failure that names selected tracks
\* while a clip is selected, or selected clips while a track is selected, is
\* answered with a clarification (ok = true, needs_clarification = true, a
\* question asking for clips or tracks, no tool calls); the question is not the
\* planner's (its plan asked nothing) and the planner was invoked exactly once.
C22_MismatchAsksClipsOrTracks ==
    (/\ ValidationFailed /\ NoForcedTarget
     /\ \/ NamesSelectedTracks /\ RequestClips >= 1
        \/ NamesSelectedClips /\ RequestTracks >= 1) =>
        /\ response.ok
        /\ response.needs_clarification
        /\ AsksClipsOrTracks(response.clarification_question)
        /\ response.tool_calls = <<>>
        /\ response.error = Null
        /\ pstat.plan.d.clarification_question = Null
        /\ pstat.planner_calls = 1

\* a track tool planned while only a clip is selected
C22_Witness ==
    /\ ValidationFailed /\ NoForcedTarget
    /\ NamesSelectedTracks /\ ~NamesSelectedClips
    /\ RequestClips >= 1 /\ RequestTracks = 0
    /\ response.needs_clarification

\* the effective forced target of the request, when it has one
ForcedTarget == Responded /\ pstat.forced_target \in {CLIPS, TRACKS}

\* the validator's message names the selection kind of the forced target
NamesForcedKind ==
    IF pstat.forced_target = TRACKS THEN NamesSelectedTracks ELSE NamesSelectedClips

\* C23: with a forced target T, a validation failure whose message names T's
\* selection kind ("selected track" for tracks, "selected clip" for clips) is
\* answered with ok = false and exactly T's error "No selected tracks..." or
\* "No selected clips..."; a failure that does not name T's kind (it names only
\* the other kind, or none) is answered with "Validation error: <message>".
C23_ForcedTargetSelectionError ==
    (ValidationFailed /\ ForcedTarget) =>
        IF NamesForcedKind
        THEN response = Failure(_target_error(pstat.forced_target))
        ELSE response = Failure(<<"Validation error:">> \o ValidationError)

\* forced to tracks, the plan needs a clip: the message names only the other kind
C23_Witness ==
    /\ ValidationFailed /\ ForcedTarget
    /\ pstat.forced_target = TRACKS
    /\ NamesSelectedClips /\ ~NamesSelectedTracks
    /\ response.error = Str(<<"Validation error:">> \o ValidationError)

\* the planner asked for clarification: the question of its enforced plan
PlannerAsked == Enforced /\ pstat.plan.d.needs_clarification.b
PlannerQuestion == IF PlannerAsked THEN pstat.plan.d.clarification_question.s ELSE <<>>

MentionsClipAndTrack(text) ==
    Contains(Lower(text), <<"clip">>) /\ Contains(Lower(text), <<"track">>)

\* C24: with a forced target, a plan that again asks for clarification is
\* answered with ok = false: the target's "No selected <target>" error when the
\* planner's question mentions both "clip" and "track" in any case, and else the
\* error "Could not resolve command after clarification..."; the planner's
\* question is in no field of the response.
C24_ForcedTargetClarificationFails ==
    (PlannerAsked /\ ForcedTarget) =>
        /\ response =
              IF MentionsClipAndTrack(PlannerQuestion)
              THEN Failure(_target_error(pstat.forced_target))
              ELSE Failure(<<"Could not resolve command after clarification", ".",
                             "Try a more specific command", ".">>)
        /\ response.clarification_question = Null
        /\ ~Contains(response.error.s, PlannerQuestion)
        /\ response.preview = <<>>

\* forced to clips, the planner asks "Which track?": one of the two words only
C24_Witness ==
    /\ PlannerAsked /\ ForcedTarget
    /\ pstat.forced_target = CLIPS
    /\ PlannerQuestion = <<"Which", "track", "?">>
    /\ response.error # Str(_target_error(CLIPS))

---------------------------------------------------------------------------
(* Claims about the order of validate_tool_plan's checks, under SpecValidate *)

\* the validated plan is a plan of tool calls: the loop over the calls runs
VLoopRuns == Validated /\ Keys(vplan) = PlanKeys /\ ShapeToolCalls(vplan)

\* what the loop's body makes of call i with the context of the run
VCheck(i) ==
    CheckToolCall(VCalls[i], i - 1, VClips, VTracks, _has_time_selection(vctx))

\* what it makes of call i when nothing is missing from the selection: an
\* error is then one of the call itself, its shape or its arguments
VCheckArgs(i) == CheckToolCall(VCalls[i], i - 1, 2, 1, TRUE)

VFailing == {i \in 1..Len(VCalls) : ~VCheck(i).ok}

\* C25: validate_tool_plan returns (ok = true, error = None) or (ok = false,
\* one non-empty message), never another outcome; for a plan of tool calls it
\* returns the error of the lowest-index failing call, whatever the later calls
\* are; and a call whose arguments are wrong is refused with the argument error
\* even when its target is missing too.
C25_FailFastOrdered ==
    Validated =>
        /\ ~vout.raised
        /\ \/ vout.ok /\ vout.error = Null
           \/ ~vout.ok /\ IsStr(vout.error) /\ vout.error.s # <<>>
        /\ VLoopRuns =>
            /\ vout.ok <=> VFailing = {}
            /\ \A i \in VFailing :
                (\A k \in VFailing : i <= k) =>
                    vout.at = i /\ vout.error = VCheck(i).error
            /\ \A i \in 1..Len(VCalls) :
                (RejectedAt(i) /\ ~VCheckArgs(i).ok) => vout.error = VCheckArgs(i).error

---------------------------------------------------------------------------
(* Claims about the effective forced target, checked under Spec *)

\* a request value that reads clip or clips / track or tracks, in any case and
\* with whitespace around it
NamesClips(v) ==
    IsStr(v) /\ Lower(Strip(v.s)) \in {<<"clip">>, <<"clip", "s">>}
NamesTracks(v) ==
    IsStr(v) /\ Lower(Strip(v.s)) \in {<<"track">>, <<"track", "s">>}

\* the request got as far as working out its target
TargetWorkedOut == Responded /\ CallsPlanner(payload)

\* C26: the effective forced target is what forced_target names when it names
\* clips or tracks; what clarification_answer names only when forced_target is
\* absent or names neither; forced_target wins when both name a target and
\* differ; and there is no forced target when neither names one.
C26_EffectiveForcedTarget ==
    TargetWorkedOut =>
        LET forced == Get(payload, "forced_target")
            answer == Get(payload, "clarification_answer")
        IN  /\ NamesClips(forced) => pstat.forced_target = CLIPS
            /\ NamesTracks(forced) => pstat.forced_target = TRACKS
            /\ (~NamesTarget(forced) /\ NamesClips(answer)) => pstat.forced_target = CLIPS
            /\ (~NamesTarget(forced) /\ NamesTracks(answer)) => pstat.forced_target = TRACKS
            /\ (~NamesTarget(forced) /\ ~NamesTarget(answer)) => pstat.forced_target = Null

\* forced_target "tracks" and the answer "clips": the forced target wins
C26_Witness ==
    /\ TargetWorkedOut
    /\ NamesTracks(Get(payload, "forced_target"))
    /\ NamesClips(Get(payload, "clarification_answer"))
    /\ pstat.forced_target = TRACKS

---------------------------------------------------------------------------
(* Claims about the context summary, checked under Spec *)

\* the summary plan_tool_calls built for this request (gemini_agent.py 365),
\* when it got as far as calling the planner
Summary ==
    IF Responded /\ CallsPlanner(payload) /\ outcome.kind # "not_configured"
    THEN build_ctx_summary(pstat.planning_ctx)
    ELSE Null

\* a pair of bounds: two floats and nothing else
IsBounds(v) ==
    /\ IsDict(v) /\ Keys(v) = {"start", "end"}
    /\ v.d.start.t = "float" /\ v.d.end.t = "float"

\* C27: the summary sent to the planner has time-selection bounds only when the
\* context's time selection ends strictly after it starts, and a null
\* time_selection otherwise; it holds the two counts, the cursor, the clip
\* span, the time-selection bounds and the forced-target tag, and none of the
\* selected clip or track objects.
C27_SummaryTimeSelectionOnlyWhenValid ==
    Summary # Null =>
        /\ Get(Summary, "time_selection") # Null => _has_time_selection(pstat.planning_ctx)
        /\ ~_has_time_selection(pstat.planning_ctx) => Get(Summary, "time_selection") = Null
        /\ Keys(Summary) \subseteq {"selected_clips_count", "selected_tracks_count", "cursor",
                                    "selected_clips_range", "time_selection", "forced_target"}
        /\ Summary.d.selected_clips_count = IntV(Len(_selected_items(pstat.planning_ctx)))
        /\ Summary.d.selected_tracks_count = IntV(Len(_selected_tracks(pstat.planning_ctx)))
        /\ Summary.d.cursor.t = "float"
        /\ Summary.d.time_selection = Null \/ IsBounds(Summary.d.time_selection)
        /\ "selected_clips_range" \in Keys(Summary) => IsBounds(Summary.d.selected_clips_range)
        /\ "forced_target" \in Keys(Summary) => Summary.d.forced_target \in {CLIPS, TRACKS}

---------------------------------------------------------------------------
(* Claims about the preview of durations, checked under Spec *)

DurationTools == {"fade_in", "fade_out", "crossfade", "cut_middle"}

\* the preview line says `amount` followed by `unit`
Shows(line, amount, unit) ==
    \E j \in 1..(Len(line) - 1) : line[j] = amount /\ line[j + 1] = unit

\* the duration of `seconds` (in tenths) as the line should show it
ShowsDuration(line, tenths) ==
    IF tenths < 10
    THEN Shows(line, ToString(tenths * 100), "ms")
    ELSE Shows(line, Fmt1(tenths), "s")

\* the response carries a preview of its tool calls
Previewed == Responded /\ response.ok /\ response.tool_calls # <<>>

\* C28: in a previewed response the line of every fade_in, fade_out, crossfade
\* and cut_middle call shows the call's duration in milliseconds when it is
\* under one second, and in seconds with one decimal otherwise.
C28_DurationInMsUnderOneSecond ==
    Previewed =>
        \A i \in 1..Len(response.tool_calls) :
            Word(Get(response.tool_calls[i], "name")) \in DurationTools =>
                ShowsDuration(response.preview[i + 1],
                              _as_float(Get(Get(response.tool_calls[i], "args"), "seconds")))

---------------------------------------------------------------------------
(* Claims about the enforcer and the validator together, checked under Spec *)

\* the messages of validate_tool_plan about an argument's type or range
TypeOrRangeTexts ==
    {"seconds must be numeric", "seconds must be > 0 and <= 30",
     "seconds must be > 0 and <= 10", "seconds must be > 0",
     "db must be numeric", "db must be between -24 and 24",
     "percent must be numeric", "percent must be between -90 and 200",
     "percent must be between 0 and 200",
     "pan must be an integer", "pan must be between -100 and 100",
     "type must be a string", "type must be one of ['compressor', 'eq', 'reverb']",
     "count must be an integer", "count must be between 1 and 32"}

IsTypeOrRangeError(e) ==
    /\ Len(e) = 5 /\ e[1] = "Invalid args for" /\ e[2] \in WHITELISTED_TOOLS
    /\ e[4] \in TypeOrRangeTexts

\* the messages about what is selected: "<tool> requires ..."
IsTargetError(e) == Len(e) >= 2 /\ e[1] \in WHITELISTED_TOOLS /\ e[2] = "requires"

\* validate_tool_plan refuses `plan` in `ctx` for another reason than an
\* argument's type or range or the selection
RefusedForStructure(plan, ctx) ==
    LET v == validate_tool_plan(plan, ctx)
    IN  /\ ~v.ok
        /\ ~IsTypeOrRangeError(v.error.s)
        /\ ~IsTargetError(v.error.s)

\* C29: a plan returned by _enforce_schema passes _validate_plan_shape, and
\* validate_tool_plan refuses it in the planning context of the request only
\* with a message about an argument's type or range or about the selection;
\* the validation the bridge ran says the same.
\* TOOL_ARG_KEYS has an entry for every whitelisted tool.
C29_EnforcerAndValidatorAgree ==
    /\ DOMAIN TOOL_ARG_KEYS = WHITELISTED_TOOLS
    /\ Enforced =>
        /\ _validate_plan_shape(pstat.plan).ok
        /\ ~RefusedForStructure(pstat.plan, pstat.planning_ctx)
        /\ pstat.validation.ran /\ ~pstat.validation.ok =>
                \/ IsTypeOrRangeError(pstat.validation.error.s)
                \/ IsTargetError(pstat.validation.error.s)

\* an enforced plan of two calls that the validator refused for the range of an
\* argument of the second
C29_Witness ==
    /\ Enforced
    /\ Len(pstat.plan.d.tool_calls.l) = 2
    /\ pstat.validation.ran /\ ~pstat.validation.ok
    /\ IsTypeOrRangeError(pstat.validation.error.s)
    /\ pstat.validation.error.s[2] = Word(pstat.plan.d.tool_calls.l[2].d.name)

---------------------------------------------------------------------------
(* Claims about the control loop's history, checked under SpecLoopFair *)

\* the step puts one entry in front of the history and keeps the others
AddsEntry(cmd, calls) ==
    history'.items = <<[command |-> cmd, tool_calls |-> calls]>> \o history.items

\* a command typed at "> " that goes to the planner
PlanningCommands ==
    {Strip(typed) : typed \in TypedCommands}
    \ ({<<>>, <<"q">>, <<"quit">>, <<"exit">>}
       \cup {c \in {Strip(typed) : typed \in TypedCommands} :
                ~IsNone(_set_context_from_command(c))})

\* the step records a planning command whose first response was a failure
AddsFailedEntry == \E c \in PlanningCommands : AddsEntry(c, <<>>)

\* C30: the loop adds one history entry per planning command, in the step that
\* gets the first response, with that response's tool_calls, also when the
\* response is a failure (an entry with no tool calls); the follow-up after a
\* clarification and the confirmation leave the history as it is, so the entry
\* of a clarified command keeps its empty tool_calls when the follow-up brings
\* a plan; quit, empty input and the selection commands add nothing.
C30_OneHistoryEntryPerPlanningCommand ==
    [][/\ lpc # "prompt" => history' = history
       /\ lpc = "prompt" /\ lpc' \in {"answer", "apply"} =>
            /\ lcmd' \in PlanningCommands
            /\ AddsEntry(lcmd', lresp'.tool_calls)
       /\ lpc = "prompt" /\ lpc' = "prompt" /\ lcalls' # lcalls => AddsFailedEntry
       /\ lpc = "prompt" /\ lpc' = "prompt" /\ lcalls' = lcalls =>
            history' = history \/ (AddsFailedEntry /\ lctx' = lctx)
       /\ lpc' = "exit" \/ lctx' # lctx => history' = history
       /\ lpc = "answer" /\ lpc' = "apply" =>
            /\ history.items[1] = [command |-> lcmd, tool_calls |-> <<>>]
            /\ lresp'.tool_calls # <<>>]_vars

\* after a second command the follow-up of which brought a plan to confirm: its
\* entry has no tool calls, and the entry of the command before is kept
C30_Witness ==
    /\ lpc = "apply" /\ lcalls = 2
    /\ lresp.tool_calls # <<>>
    /\ Len(history.items) = 2
    /\ history.items[1] = [command |-> lcmd, tool_calls |-> <<>>]

====
